---- MODULE Spec2Model ----
(***************************************************************************)
(* Verification model of miklilad/fractals: the viewport transform, the    *)
(* pointer/wheel/touch gesture controller and the escape-time iteration.   *)
(*                                                                         *)
(* Numbers.  JavaScript numbers are modelled as exact rationals n/d in     *)
(* lowest terms with d > 0, extended by the three IEEE-754 specials the    *)
(* code can produce by dividing by zero: +Infinity = 1/0, -Infinity = -1/0 *)
(* and NaN = 0/0.  Rounding and the sign of zero are not modelled: every   *)
(* property below is a property of the formulas in exact arithmetic.       *)
(***************************************************************************)
EXTENDS Integers, Sequences, FiniteSets, TLC

(***************************************************************************)
(* Exact arithmetic on JavaScript numbers                                  *)
(***************************************************************************)
Abs(i) == IF i < 0 THEN -i ELSE i

Sgn(i) == IF i < 0 THEN -1 ELSE IF i > 0 THEN 1 ELSE 0

RECURSIVE GCD(_, _)
GCD(a, b) == IF b = 0 THEN a ELSE GCD(b, a % b)

\* n/d in lowest terms with a positive denominator; a zero denominator
\* yields +Infinity, -Infinity or NaN according to the sign of n
Norm(n, d) ==
  IF d = 0 THEN [n |-> Sgn(n), d |-> 0]
  ELSE LET g == GCD(Abs(n), Abs(d))
       IN  [n |-> Sgn(d) * (n \div g), d |-> Abs(d) \div g]

R(n, d) == Norm(n, d)

I(n) == [n |-> n, d |-> 1]

NaN == [n |-> 0, d |-> 0]

IsNaN(a) == a.d = 0 /\ a.n = 0

Neg(a) == [n |-> -a.n, d |-> a.d]

\* a + b; Infinity + -Infinity and anything with NaN is NaN
Add(a, b) ==
  IF IsNaN(a) \/ IsNaN(b) THEN NaN
  ELSE IF a.d = 0 THEN (IF b.d = 0 /\ b.n # a.n THEN NaN ELSE a)
  ELSE IF b.d = 0 THEN b
  ELSE LET g == GCD(a.d, b.d)
       IN  Norm(a.n * (b.d \div g) + b.n * (a.d \div g), (a.d \div g) * b.d)

Sub(a, b) == Add(a, Neg(b))

\* a * b; 0 * Infinity and anything with NaN is NaN
Mul(a, b) ==
  IF a.d = 0 \/ b.d = 0 THEN Norm(a.n * b.n, 0)
  ELSE LET g1 == GCD(Abs(a.n), b.d)
           g2 == GCD(Abs(b.n), a.d)
       IN  Norm((a.n \div g1) * (b.n \div g2), (a.d \div g2) * (b.d \div g1))

\* a / b; x / 0 is +-Infinity, 0 / 0 and Infinity / Infinity are NaN
Div(a, b) ==
  IF IsNaN(a) \/ IsNaN(b) THEN NaN
  ELSE IF b.n = 0 /\ b.d # 0 THEN Norm(a.n, 0)
  ELSE IF b.d = 0 THEN (IF a.d = 0 THEN NaN ELSE I(0))
  ELSE IF a.d = 0 THEN Norm(a.n * Sgn(b.n), 0)
  ELSE Mul(a, [n |-> Sgn(b.n) * b.d, d |-> Abs(b.n)])

\* a < b; every comparison with NaN is false
Lt(a, b) ==
  IF IsNaN(a) \/ IsNaN(b) THEN FALSE
  ELSE IF a.d = 0 /\ b.d = 0 THEN a.n < b.n
  ELSE IF a.d = 0 THEN a.n < 0
  ELSE IF b.d = 0 THEN b.n > 0
  ELSE a.n * b.d < b.n * a.d

Gt(a, b) == Lt(b, a)

\* Math.sign
MathSign(a) == IF IsNaN(a) THEN NaN ELSE I(Sgn(a.n))

IsSquare(k) == \E r \in 0..k : r * r = k

ISqrt(k) == CHOOSE r \in 0..k : r * r = k

\* Math.sqrt, exact on the squares of rationals (the only arguments the
\* model passes to it); NaN on negative numbers
MathSqrt(a) ==
  IF IsNaN(a) \/ a.n < 0 THEN NaN
  ELSE IF a.d = 0 THEN a
  ELSE [n |-> ISqrt(a.n), d |-> ISqrt(a.d)]

(***************************************************************************)
(* Values                                                                  *)
(***************************************************************************)
Pt(a, b) == [x |-> a, y |-> b]

Origin == Pt(I(0), I(0))

Position(a, b, c) == [x |-> a, y |-> b, z |-> c]

\* CONFIG.mandelbrot.positions[0] and CONFIG.julia.positions[0]
PresetMandelbrot == Position(R(-1, 2), I(0), I(2))

PresetJulia == Position(I(0), I(0), I(2))

\* CONFIG of config.ts: the positions of each fractal (the shaders are not
\* modelled); the positions of "mandelbrot" are also POSITIONS of Canvas.tsx
CONFIG ==
  [mandelbrot |->
     [positions |->
        <<PresetMandelbrot,
          Position(R(-1253488, 1000000), R(-3846224, 10000000), R(42, 1000000)),
          Position(R(-125344342, 100000000), R(-38461364, 100000000),
                   R(356, 100000000)),
          Position(R(-114961, 1000000), R(-43555, 1000000), R(567, 1000000))>>],
   julia |-> [positions |-> <<PresetJulia>>]]

(***************************************************************************)
(* Viewport model: the transform between screen and complex plane          *)
(***************************************************************************)
screenToComplex(screenX, screenY, canvasWidth, canvasHeight, position) ==
  LET ratio == Div(canvasWidth, canvasHeight)
      min2x == Sub(position.x, position.z)
      min2y == Sub(position.y, Div(position.z, ratio))
      max2x == Add(position.x, position.z)
      max2y == Add(position.y, Div(position.z, ratio))
  IN  Pt(Add(min2x, Mul(Div(screenX, canvasWidth), Sub(max2x, min2x))),
         Sub(max2y, Mul(Div(screenY, canvasHeight), Sub(max2y, min2y))))

\* complexToScreen with the y axis not flipped back
complexToScreenNoFlip(cx, cy, canvasWidth, canvasHeight, position) ==
  LET ratio == Div(canvasWidth, canvasHeight)
      min2x == Sub(position.x, position.z)
      min2y == Sub(position.y, Div(position.z, ratio))
      max2x == Add(position.x, position.z)
      max2y == Add(position.y, Div(position.z, ratio))
  IN  Pt(Mul(Div(Sub(cx, min2x), Sub(max2x, min2x)), canvasWidth),
         Mul(Div(Sub(cy, min2y), Sub(max2y, min2y)), canvasHeight))

complexToScreen(cx, cy, canvasWidth, canvasHeight, position) ==
  LET ratio == Div(canvasWidth, canvasHeight)
      min2x == Sub(position.x, position.z)
      min2y == Sub(position.y, Div(position.z, ratio))
      max2x == Add(position.x, position.z)
      max2y == Add(position.y, Div(position.z, ratio))
  IN  Pt(Mul(Div(Sub(cx, min2x), Sub(max2x, min2x)), canvasWidth),
         Mul(Div(Sub(max2y, cy), Sub(max2y, min2y)), canvasHeight))

(***************************************************************************)
(* Gesture controller: the pure functions of the hook                      *)
(***************************************************************************)
\* calculateNewPosition returning z grown by the horizontal movement
calculateNewPositionMovesZ(currentPosition, mouseDelta, canvasSize) ==
  LET scaleFactor == Mul(Div(currentPosition.z, canvasSize.width), I(2))
      ratio == Div(canvasSize.width, canvasSize.height)
  IN  Position(Sub(currentPosition.x, Mul(mouseDelta.x, scaleFactor)),
               Add(currentPosition.y, Mul(Mul(mouseDelta.y, scaleFactor), ratio)),
               Add(currentPosition.z, Mul(mouseDelta.x, scaleFactor)))

calculateNewPosition(currentPosition, mouseDelta, canvasSize) ==
  LET scaleFactor == Mul(Div(currentPosition.z, canvasSize.width), I(2))
      ratio == Div(canvasSize.width, canvasSize.height)
  IN  Position(Sub(currentPosition.x, Mul(mouseDelta.x, scaleFactor)),
               Add(currentPosition.y, Mul(Mul(mouseDelta.y, scaleFactor), ratio)),
               currentPosition.z)

\* default value of the zoomFactor parameter, 0.1
zoomFactor == R(1, 10)

calculateNewZoom(currentZ, scrollDelta) ==
  LET zoomMultiplier == Add(I(1), Mul(scrollDelta, zoomFactor))
  IN  Mul(currentZ, zoomMultiplier)

calculateTouchDistance(touch1, touch2) ==
  LET dx == Sub(touch2.x, touch1.x)
      dy == Sub(touch2.y, touch1.y)
  IN  MathSqrt(Add(Mul(dx, dx), Mul(dy, dy)))

\* screenToWorld with the y axis not inverted
screenToWorldNoFlip(screenPos, position, canvasSize) ==
  LET ratio == Div(canvasSize.width, canvasSize.height)
      normalizedX == Div(screenPos.x, canvasSize.width)
      normalizedY == Div(screenPos.y, canvasSize.height)
  IN  Pt(Add(Sub(position.x, position.z), Mul(Mul(normalizedX, position.z), I(2))),
         Add(Sub(position.y, Div(position.z, ratio)),
             Mul(Mul(normalizedY, Div(position.z, ratio)), I(2))))

screenToWorld(screenPos, position, canvasSize) ==
  LET ratio == Div(canvasSize.width, canvasSize.height)
      normalizedX == Div(screenPos.x, canvasSize.width)
      normalizedY == Sub(I(1), Div(screenPos.y, canvasSize.height))
  IN  Pt(Add(Sub(position.x, position.z), Mul(Mul(normalizedX, position.z), I(2))),
         Add(Sub(position.y, Div(position.z, ratio)),
             Mul(Mul(normalizedY, Div(position.z, ratio)), I(2))))

calculateZoomAtPoint(currentPosition, cursorScreen, scrollDelta, canvasSize) ==
  LET worldPosBefore == screenToWorld(cursorScreen, currentPosition, canvasSize)
      newZ == calculateNewZoom(currentPosition.z, scrollDelta)
      ratio == Div(canvasSize.width, canvasSize.height)
      normalizedX == Div(cursorScreen.x, canvasSize.width)
      normalizedY == Sub(I(1), Div(cursorScreen.y, canvasSize.height))
      newX == Add(Sub(worldPosBefore.x, Mul(Mul(normalizedX, newZ), I(2))), newZ)
      newY == Sub(Add(worldPosBefore.y, Div(newZ, ratio)),
                  Mul(Mul(normalizedY, Div(newZ, ratio)), I(2)))
  IN  Position(newX, newY, newZ)

(***************************************************************************)
(* Escape-time iteration: the pure parts of the loop                       *)
(***************************************************************************)
\* default value of the maxIterations parameter
DefaultMaxIterations == 1000

\* the loop condition written as i <= maxIterations
LoopCondInclusive(i, maxIterations) == i <= maxIterations

\* the loop condition i < maxIterations
LoopCond(i, maxIterations) == i < maxIterations

\* the escape test against 16 (radius 4) instead of 4 (radius 2)
EscapedRadius4(zx, zy) == Gt(Add(Mul(zx, zx), Mul(zy, zy)), I(16))

\* the escape test written with >= instead of >
EscapedNonStrict(zx, zy) == ~Lt(Add(Mul(zx, zx), Mul(zy, zy)), I(4))

\* the escape test of the loop: zxSquared + zySquared > 4.0
Escaped(zx, zy) == Gt(Add(Mul(zx, zx), Mul(zy, zy)), I(4))

\* the pass assigning zx before zy is computed, so that zy uses the new zx
MandelbrotStepUpdatedX(zx, zy, cx, cy) ==
  LET zxSquared == Mul(zx, zx)
      zySquared == Mul(zy, zy)
      xtemp == Add(Sub(zxSquared, zySquared), cx)
  IN  Pt(xtemp, Add(Mul(Mul(I(2), xtemp), zy), cy))

\* one pass of the loop body after the test: xtemp, then zy from the old zx
MandelbrotStep(zx, zy, cx, cy) ==
  LET zxSquared == Mul(zx, zx)
      zySquared == Mul(zy, zy)
      xtemp == Add(Sub(zxSquared, zySquared), cx)
  IN  Pt(xtemp, Add(Mul(Mul(I(2), zx), zy), cy))

\* iterations declared empty, the seed forgotten
SeedPathEmpty == <<>>

\* the initial value of iterations, [{ x: 0, y: 0 }]
SeedPath == <<Origin>>

(***************************************************************************)
(* Rendering: the uniforms of render and the pure parts of the shaders     *)
(***************************************************************************)
\* the bound of the shader loop, i < 1000
ShaderMaxIterations == 1000

\* the uniforms u_min2 and u_scalingFactor with min2y replaced by max2y
renderUniformsFromTop(position, width, height) ==
  LET ratio == Div(width, height)
      min2x == Sub(position.x, position.z)
      min2y == Sub(position.y, Div(position.z, ratio))
      max2x == Add(position.x, position.z)
      max2y == Add(position.y, Div(position.z, ratio))
      scalingFactorX == Div(Sub(max2x, min2x), width)
      scalingFactorY == Div(Sub(max2y, min2y), height)
  IN  [u_min2 |-> Pt(min2x, max2y),
       u_scalingFactor |-> Pt(scalingFactorX, scalingFactorY)]

\* the uniforms u_min2 and u_scalingFactor computed by render
renderUniforms(position, width, height) ==
  LET ratio == Div(width, height)
      min2x == Sub(position.x, position.z)
      min2y == Sub(position.y, Div(position.z, ratio))
      max2x == Add(position.x, position.z)
      max2y == Add(position.y, Div(position.z, ratio))
      scalingFactorX == Div(Sub(max2x, min2x), width)
      scalingFactorY == Div(Sub(max2y, min2y), height)
  IN  [u_min2 |-> Pt(min2x, min2y),
       u_scalingFactor |-> Pt(scalingFactorX, scalingFactorY)]

\* vec2 coord = u_min2 + gl_FragCoord.xy * u_scalingFactor
ShaderCoord(min2, fragCoord, scalingFactor) ==
  Pt(Add(min2.x, Mul(fragCoord.x, scalingFactor.x)),
     Add(min2.y, Mul(fragCoord.y, scalingFactor.y)))

\* the escape test of the shader loops: zxSquared + zySquared > 4.0
ShaderEscaped(zx, zy) == Gt(Add(Mul(zx, zx), Mul(zy, zy)), I(4))

\* the loop body of fragment3.frag with zy += zy + coord.y run before
\* zy *= zx
Fragment3StepSwapped(zx, zy, coord) ==
  LET zxSquared == Mul(zx, zx)
      zySquared == Mul(zy, zy)
      xtemp == Add(Sub(zxSquared, zySquared), coord.x)
      zy1 == Add(zy, Add(zy, coord.y))
      zy2 == Mul(zy1, zx)
  IN  Pt(xtemp, zy2)

\* the loop body of fragment3.frag after the test: xtemp, zy *= zx,
\* zy += zy + coord.y, zx = xtemp
Fragment3Step(zx, zy, coord) ==
  LET zxSquared == Mul(zx, zx)
      zySquared == Mul(zy, zy)
      xtemp == Add(Sub(zxSquared, zySquared), coord.x)
      zy1 == Mul(zy, zx)
      zy2 == Add(zy1, Add(zy1, coord.y))
  IN  Pt(xtemp, zy2)

\* the loop body of mandelbrot2.frag after the test, on the vec2 z:
\* zSquared = z * z, xtemp, z.y *= z.x, z.y += z.y + coord.y, z.x = xtemp
Mandelbrot2Step(z, coord) ==
  LET zSquared == Pt(Mul(z.x, z.x), Mul(z.y, z.y))
      xtemp == Add(Sub(zSquared.x, zSquared.y), coord.x)
      zy1 == Mul(z.y, z.x)
      zy2 == Add(zy1, Add(zy1, coord.y))
  IN  Pt(xtemp, zy2)

(***************************************************************************)
(* State                                                                   *)
(***************************************************************************)
\* Gesture controller (useMouseDragMovement) and its host:
\*   hook               which version of the hook is mounted: "part_000",
\*                      zooming at the cursor or the touch centroid, or
\*                      "useMouseMovement" (hooks/useMouseMovement.ts),
\*                      zooming about the viewport centre
\*   canvas             canvas.width and canvas.height
\*   rect               left and top of canvas.getBoundingClientRect()
\*   position           the viewport, the React state {x, y, z} of Canvas
\*   updates            the updaters passed to setPosition and not yet
\*                      processed by a render, oldest first
\*   isDraggingRef, lastMousePos, lastTouchDistance   the refs of the hook
\* History variables, written and never read by the handlers:
\*   expected           the viewport obtained by applying every updater at
\*                      the moment its event was handled
\*   last               the updater a render processed last, with the
\*                      viewport before and after it, and the number of
\*                      updaters that render processed
\*   run                the current run of consecutive pointer-moves of one
\*                      drag: their number, the viewport and pointer
\*                      position the first of them started from, and the
\*                      pointer position it moved to
\*   nEvents            number of updaters passed to setPosition so far
VARIABLES hook, canvas, rect, position, updates,
          isDraggingRef, lastMousePos, lastTouchDistance,
          expected, last, run, nEvents

gvars == <<hook, canvas, rect, position, updates,
           isDraggingRef, lastMousePos, lastTouchDistance,
           expected, last, run, nEvents>>

\* A round trip through the transform: tr_in = the screen point, viewport
\* and canvas size; tr_complex = screenToComplex of it; tr_back =
\* complexToScreen of tr_complex; tr_pc = "start", "complex" or "back"
\* tr_world = screenToWorld of the same screen point, once computed
VARIABLES tr_pc, tr_in, tr_complex, tr_back, tr_world

tvars == <<tr_pc, tr_in, tr_complex, tr_back, tr_world>>

\* The locals of a call calculateMandelbrotIterations(cx, cy, maxIterations):
\* it_c = (cx, cy), it_max = maxIterations, it_i = i, it_z = (zx, zy),
\* it_path = iterations; it_pc is the position of the call ("loop" at the
\* loop head, "done" once it has returned it_path) and it_broke records
\* whether the loop was left by the break
VARIABLES it_pc, it_c, it_max, it_i, it_z, it_path, it_broke

ivars == <<it_pc, it_c, it_max, it_i, it_z, it_path, it_broke>>

\* The iteration-path overlay (useIterationPath and IterationPathOverlay):
\*   isEnabled, complexCoord, isFrozen   the React state of useIterationPath
\*   stateUpdates       the calls of setIsEnabled, setComplexCoord and
\*                      setIsFrozen not yet processed by a render, oldest first
\*   lastMousePosRef    the ref of IterationPathOverlay
\*   mouseDownTime, mouseDownPos   the locals of the click effect
\*   now                Date.now()
\* History variables, written and never read by the handlers:
\*   press              the last mouse-down the overlay handled: its time and
\*                      position, and whether a pointer-move has panned the
\*                      viewport since
\*   lastUp             the last mouse-up the overlay handled: whether it
\*                      came less than MAX_CLICK_DURATION after press and
\*                      less than MAX_MOVE_DISTANCE away from it, whether it
\*                      called toggleFrozen, and press.panned at that moment
\*   unfrozen           set by the render in which isFrozen went from true
\*                      to false with a pointer position tracked: coord =
\*                      screenToComplex of that position in the viewport of
\*                      that render, was = the coordinate displayed by that
\*                      render, moved = a pointer-move was handled since,
\*                      shown = coord was displayed when it was handled
\*   nOverlay           number of events the overlay has seen
VARIABLES isEnabled, complexCoord, isFrozen, stateUpdates, lastMousePosRef,
          mouseDownTime, mouseDownPos, now, press, lastUp, unfrozen, nOverlay

ovars == <<isEnabled, complexCoord, isFrozen, stateUpdates, lastMousePosRef,
           mouseDownTime, mouseDownPos, now, press, lastUp, unfrozen, nOverlay>>

\* History variable of the gesture controller, written and never read by
\* the handlers:
\*   handled            the event handled last: its type, its touch points
\*                      (or the one pointer position), whether the controller
\*                      was Dragging and Pinching when it arrived, and the
\*                      number of calls of setPosition its handler made
VARIABLES handled

hvars == <<handled>>

\* The fragment shader drawing one pixel, and the uniforms render uploads:
\*   sh_src             the shader compiled: "fragment3" or "mandelbrot2"
\*   u_min2, u_scalingFactor   the uniforms of the program
\*   sh_fragCoord       gl_FragCoord.xy, measured from the bottom-left corner
\*   sh_coord, sh_i, sh_z, sh_color   the locals coord, i, z and color of
\*                      main; sh_color is null for vec3(0.0) and <<i>> for
\*                      calculateColor(i)
\*   sh_pc              "start" before render has uploaded the uniforms,
\*                      "main" at the entry of main, "loop" at the loop head,
\*                      "done" once gl_FragColor is written
VARIABLES sh_pc, sh_src, u_min2, u_scalingFactor, sh_fragCoord, sh_coord,
          sh_i, sh_z, sh_color

svars == <<sh_pc, sh_src, u_min2, u_scalingFactor, sh_fragCoord, sh_coord,
           sh_i, sh_z, sh_color>>

\* The preset selection of Canvas:
\*   fractal, positionIndex   the React state of Canvas
\*   effectPending      the effect depending on [positionIndex, fractal] is
\*                      to run: a render has committed a new value of one
\* History variables, written and never read by the handlers:
\*   dirty              a gesture has passed an updater to setPosition since
\*                      that effect last ran
\*   nSelections        number of clicks on the two selection buttons
VARIABLES fractal, positionIndex, effectPending, dirty, nSelections

pvars == <<fractal, positionIndex, effectPending, dirty, nSelections>>

\* The GPU program of Canvas (Canvas.tsx):
\*   fragmentShaderIndex, calculateColorValue   the React state of Canvas
\*   contextRef         contextRef.current: the program initWebGL built last,
\*                      named by the selection it was built for
\*   observed           the context the callback of the ResizeObserver holds
\*   notify             the observer has its first notification to deliver
\* History variables, written and never read by the code:
\*   lastDraw           the last draw call: the program it used, the
\*                      selection rendered at that moment, and the effect
\*                      that drew
\*   nResizes           number of resizes of the canvas
VARIABLES fragmentShaderIndex, calculateColorValue, contextRef, observed,
          notify, lastDraw, nResizes

cvars == <<fragmentShaderIndex, calculateColorValue, contextRef, observed,
           notify, lastDraw, nResizes>>

xvars == <<hvars, svars, pvars, cvars>>

vars == <<gvars, tvars, ivars, ovars, xvars>>

Others == <<tvars, ivars, ovars, xvars>>

\* null, and a non-null value v, of a nullable ref
Null == <<>>

Some(v) == <<v>>

NoRun == [n |-> 0, base |-> PresetMandelbrot, from |-> Origin, via |-> Origin]

\* the parts of the state a specification does not exercise
GestureUnused ==
  /\ hook = "part_000"
  /\ canvas = [width |-> I(4), height |-> I(3)]
  /\ rect = [left |-> I(1), top |-> I(2)]
  /\ position = PresetMandelbrot
  /\ updates = <<>>
  /\ isDraggingRef = FALSE
  /\ lastMousePos = Null
  /\ lastTouchDistance = Null
  /\ expected = PresetMandelbrot
  /\ last = [u |-> Null, batch |-> 0, before |-> PresetMandelbrot,
             after |-> PresetMandelbrot]
  /\ run = NoRun
  /\ nEvents = 0

TransformUnused ==
  /\ tr_pc = "start"
  /\ tr_in = [p |-> Origin, position |-> PresetMandelbrot,
              canvas |-> [width |-> I(4), height |-> I(3)]]
  /\ tr_complex = Origin
  /\ tr_back = Origin
  /\ tr_world = Null

IterUnused ==
  /\ it_pc = "done"
  /\ it_c = Origin
  /\ it_max = 0
  /\ it_i = 0
  /\ it_z = Origin
  /\ it_path = SeedPath
  /\ it_broke = FALSE

\* Date.now() when the overlay is mounted
StartTime == 1000

EventsUnused == handled = Null

\* no program is drawing: the uniforms have the initial value 0
ShaderUnused ==
  /\ sh_pc = "done"
  /\ sh_src = "fragment3"
  /\ u_min2 = Origin
  /\ u_scalingFactor = Origin
  /\ sh_fragCoord = Origin
  /\ sh_coord = Origin
  /\ sh_i = 0
  /\ sh_z = Origin
  /\ sh_color = Null

\* useState("mandelbrot"), useState(0), and the effect has run on mount
PresetUnused ==
  /\ fractal = "mandelbrot"
  /\ positionIndex = 0
  /\ effectPending = FALSE
  /\ dirty = FALSE
  /\ nSelections = 0

\* useState(3), useState(0), useRef(null)
ProgramUnused ==
  /\ fragmentShaderIndex = 3
  /\ calculateColorValue = 0
  /\ contextRef = Null
  /\ observed = Null
  /\ notify = FALSE
  /\ lastDraw = Null
  /\ nResizes = 0

FurtherUnused == EventsUnused /\ ShaderUnused /\ PresetUnused /\ ProgramUnused

NoUp == [handled |-> FALSE, short |-> FALSE, toggled |-> FALSE,
         panned |-> FALSE]

\* useState(false), useState(null), useState(false), useRef(null); no
\* listener is registered while isActive is false
OverlayUnused ==
  /\ isEnabled = FALSE
  /\ complexCoord = Null
  /\ isFrozen = FALSE
  /\ stateUpdates = <<>>
  /\ lastMousePosRef = Null
  /\ mouseDownTime = 0
  /\ mouseDownPos = Origin
  /\ now = StartTime
  /\ press = Null
  /\ lastUp = NoUp
  /\ unfrozen = Null
  /\ nOverlay = 0

(***************************************************************************)
(* Escape-time iteration: calculateMandelbrotIterations as a process       *)
(***************************************************************************)
\* largest |coordinate| of the integer grid of c
MaxC == 2

\* largest maxIterations tried besides the default
MaxSmallIterations == 3

IntGrid == {Pt(I(a), I(b)) : a \in -MaxC..MaxC, b \in -MaxC..MaxC}

HalfGrid == {Pt(R(a, 2), R(b, 2)) : a \in {-3, -1, 1, 3}, b \in {-1, 1}}

IterInputs ==
  (IntGrid \X ((0..MaxSmallIterations) \cup {DefaultMaxIterations}))
  \cup (HalfGrid \X (0..MaxSmallIterations))

\* entry of the function: iterations = [{x: 0, y: 0}], zx = zy = 0, i = 0
InitIter ==
  /\ it_pc = "loop"
  /\ \E in \in IterInputs : it_c = in[1] /\ it_max = in[2]
  /\ it_i = 0
  /\ it_z = Origin
  /\ it_path = SeedPath
  /\ it_broke = FALSE
  /\ GestureUnused
  /\ TransformUnused
  /\ OverlayUnused
  /\ FurtherUnused

\* the break preceded by a push of the escaped z
IterBreakPush ==
  /\ it_pc = "loop"
  /\ LoopCond(it_i, it_max)
  /\ Escaped(it_z.x, it_z.y)
  /\ it_pc' = "done"
  /\ it_broke' = TRUE
  /\ it_path' = Append(it_path, it_z)
  /\ UNCHANGED <<it_c, it_max, it_i, it_z>>
  /\ UNCHANGED <<gvars, tvars, ovars, xvars>>

\* i < maxIterations and the escape test holds: break
IterBreak ==
  /\ it_pc = "loop"
  /\ LoopCond(it_i, it_max)
  /\ Escaped(it_z.x, it_z.y)
  /\ it_pc' = "done"
  /\ it_broke' = TRUE
  /\ UNCHANGED <<it_c, it_max, it_i, it_z, it_path>>
  /\ UNCHANGED <<gvars, tvars, ovars, xvars>>

\* the pass pushing z both before and after advancing it
IterStepPushBoth ==
  /\ it_pc = "loop"
  /\ LoopCond(it_i, it_max)
  /\ ~Escaped(it_z.x, it_z.y)
  /\ it_z' = MandelbrotStep(it_z.x, it_z.y, it_c.x, it_c.y)
  /\ it_path' = Append(Append(it_path, it_z), it_z')
  /\ it_i' = it_i + 1
  /\ UNCHANGED <<it_pc, it_c, it_max, it_broke>>
  /\ UNCHANGED <<gvars, tvars, ovars, xvars>>

\* i < maxIterations and no escape: advance z, push it, i++
IterStep ==
  /\ it_pc = "loop"
  /\ LoopCond(it_i, it_max)
  /\ ~Escaped(it_z.x, it_z.y)
  /\ it_z' = MandelbrotStep(it_z.x, it_z.y, it_c.x, it_c.y)
  /\ it_path' = Append(it_path, it_z')
  /\ it_i' = it_i + 1
  /\ UNCHANGED <<it_pc, it_c, it_max, it_broke>>
  /\ UNCHANGED <<gvars, tvars, ovars, xvars>>

\* the loop condition fails: the function returns iterations
IterReturn ==
  /\ it_pc = "loop"
  /\ ~LoopCond(it_i, it_max)
  /\ it_pc' = "done"
  /\ UNCHANGED <<it_c, it_max, it_i, it_z, it_path, it_broke>>
  /\ UNCHANGED <<gvars, tvars, ovars, xvars>>

NextIter == IterBreak \/ IterStep \/ IterReturn

SpecIter == InitIter /\ [][NextIter]_vars

(***************************************************************************)
(* Viewport model: a round trip screen -> complex -> screen                *)
(***************************************************************************)
\* largest canvas width and height of the round trip
MaxCanvas == 3

TransformViewports ==
  {PresetMandelbrot, PresetJulia, Position(R(-5, 4), R(-3, 8), R(1, 4))}

TransformInputs ==
  {[p |-> Pt(I(px), I(py)), position |-> v,
    canvas |-> [width |-> I(w), height |-> I(h)]] :
      px \in 0..MaxCanvas, py \in 0..MaxCanvas, v \in TransformViewports,
      w \in 1..MaxCanvas, h \in 1..MaxCanvas}

InitTransform ==
  /\ tr_pc = "start"
  /\ tr_in \in {in \in TransformInputs :
                  /\ in.p.x.n <= in.canvas.width.n
                  /\ in.p.y.n <= in.canvas.height.n}
  /\ tr_complex = Origin
  /\ tr_back = Origin
  /\ tr_world = Null
  /\ GestureUnused
  /\ IterUnused
  /\ OverlayUnused
  /\ FurtherUnused

ToComplex ==
  /\ tr_pc = "start"
  /\ tr_complex' = screenToComplex(tr_in.p.x, tr_in.p.y, tr_in.canvas.width,
                                   tr_in.canvas.height, tr_in.position)
  /\ tr_pc' = "complex"
  /\ UNCHANGED <<tr_in, tr_back, tr_world>>
  /\ UNCHANGED <<gvars, ivars, ovars, xvars>>

ToScreen ==
  /\ tr_pc = "complex"
  /\ tr_back' = complexToScreen(tr_complex.x, tr_complex.y, tr_in.canvas.width,
                                tr_in.canvas.height, tr_in.position)
  /\ tr_pc' = "back"
  /\ UNCHANGED <<tr_in, tr_complex, tr_world>>
  /\ UNCHANGED <<gvars, ivars, ovars, xvars>>

\* the gesture controller converting the same screen point: screenToWorld
ToWorld ==
  /\ tr_world = Null
  /\ tr_world' = Some(screenToWorld(tr_in.p, tr_in.position, tr_in.canvas))
  /\ UNCHANGED <<tr_pc, tr_in, tr_complex, tr_back>>
  /\ UNCHANGED <<gvars, ivars, ovars, xvars>>

NextTransform == ToComplex \/ ToScreen \/ ToWorld

SpecTransform == InitTransform /\ [][NextTransform]_vars

(***************************************************************************)
(* The fragment shaders, and the overlay computing the same pixel          *)
(***************************************************************************)
\* the centre of pixel (k, j) of the canvas, counted from the top-left
\* corner, as the screen point the overlay uses
PixelCentre(k, j) == Pt(R(2 * k + 1, 2), R(2 * j + 1, 2))

\* gl_FragCoord.xy of the fragment at the screen point q
FragCoord(q, cv) == Pt(q.x, Sub(cv.height, q.y))

\* the default viewport on a 4x3 canvas: the pixel centres are the points
\* of the integer grid -2..1 x -1..1
ShaderInputs ==
  {[p |-> PixelCentre(k, j), position |-> PresetMandelbrot,
    canvas |-> [width |-> I(4), height |-> I(3)]] : k \in 0..3, j \in 0..2}

\* every viewport and canvas size of the round trip, and every pixel
RenderInputs ==
  UNION {{[p |-> PixelCentre(k, j), position |-> v,
           canvas |-> [width |-> I(w), height |-> I(h)]] :
             k \in 0..(w - 1), j \in 0..(h - 1)} :
           v \in TransformViewports, w \in 1..MaxCanvas, h \in 1..MaxCanvas}

\* a frame is about to be rendered and the fragment at tr_in.p to be
\* drawn; the overlay has not yet read the point
InitDraw(inputs) ==
  /\ tr_pc = "start"
  /\ tr_in \in inputs
  /\ tr_complex = Origin
  /\ tr_back = Origin
  /\ tr_world = Null
  /\ sh_pc = "start"
  /\ sh_src \in {"fragment3", "mandelbrot2"}
  /\ u_min2 = Origin
  /\ u_scalingFactor = Origin
  /\ sh_fragCoord = FragCoord(tr_in.p, tr_in.canvas)
  /\ sh_coord = Origin
  /\ sh_i = 0
  /\ sh_z = Origin
  /\ sh_color = Null
  /\ it_pc = "idle"
  /\ it_c = Origin
  /\ it_max = 0
  /\ it_i = 0
  /\ it_z = Origin
  /\ it_path = SeedPath
  /\ it_broke = FALSE
  /\ GestureUnused
  /\ OverlayUnused
  /\ EventsUnused
  /\ PresetUnused
  /\ ProgramUnused

InitShader == InitDraw(ShaderInputs)

InitRender == InitDraw(RenderInputs)

NotShader == <<gvars, tvars, ivars, ovars, hvars, pvars, cvars>>

\* render: the uniforms are uploaded and the triangle is drawn
render ==
  /\ sh_pc = "start"
  /\ LET u == renderUniforms(tr_in.position, tr_in.canvas.width,
                             tr_in.canvas.height)
     IN  /\ u_min2' = u.u_min2
         /\ u_scalingFactor' = u.u_scalingFactor
  /\ sh_pc' = "main"
  /\ UNCHANGED <<sh_src, sh_fragCoord, sh_coord, sh_i, sh_z, sh_color>>
  /\ UNCHANGED NotShader

\* main up to the loop: coord, color = vec3(0.0), z = 0
ShaderMain ==
  /\ sh_pc = "main"
  /\ sh_coord' = ShaderCoord(u_min2, sh_fragCoord, u_scalingFactor)
  /\ sh_color' = Null
  /\ sh_z' = Origin
  /\ sh_i' = 0
  /\ sh_pc' = "loop"
  /\ UNCHANGED <<sh_src, u_min2, u_scalingFactor, sh_fragCoord>>
  /\ UNCHANGED NotShader

\* i < 1000 and the escape test holds: color = calculateColor(i); break
ShaderBreak ==
  /\ sh_pc = "loop"
  /\ sh_i < ShaderMaxIterations
  /\ ShaderEscaped(sh_z.x, sh_z.y)
  /\ sh_color' = Some(sh_i)
  /\ sh_pc' = "done"
  /\ UNCHANGED <<sh_src, u_min2, u_scalingFactor, sh_fragCoord, sh_coord,
                 sh_i, sh_z>>
  /\ UNCHANGED NotShader

\* i < 1000 and no escape: the rest of the loop body, i++
ShaderStep ==
  /\ sh_pc = "loop"
  /\ sh_i < ShaderMaxIterations
  /\ ~ShaderEscaped(sh_z.x, sh_z.y)
  /\ sh_z' = IF sh_src = "fragment3"
             THEN Fragment3Step(sh_z.x, sh_z.y, sh_coord)
             ELSE Mandelbrot2Step(sh_z, sh_coord)
  /\ sh_i' = sh_i + 1
  /\ UNCHANGED <<sh_pc, sh_src, u_min2, u_scalingFactor, sh_fragCoord,
                 sh_coord, sh_color>>
  /\ UNCHANGED NotShader

\* the loop condition fails: gl_FragColor = vec4(color, 1.0)
ShaderReturn ==
  /\ sh_pc = "loop"
  /\ sh_i >= ShaderMaxIterations
  /\ sh_pc' = "done"
  /\ UNCHANGED <<sh_src, u_min2, u_scalingFactor, sh_fragCoord, sh_coord,
                 sh_i, sh_z, sh_color>>
  /\ UNCHANGED NotShader

\* the draw effect of the overlay calls calculateMandelbrotIterations with
\* the coordinate screenToComplex gave and the default maxIterations; the
\* two computations share no state, and the call is taken after the
\* fragment is drawn
CallIterations ==
  /\ sh_pc = "done"
  /\ tr_pc = "complex"
  /\ it_pc = "idle"
  /\ it_pc' = "loop"
  /\ it_c' = tr_complex
  /\ it_max' = DefaultMaxIterations
  /\ it_i' = 0
  /\ it_z' = Origin
  /\ it_path' = SeedPath
  /\ it_broke' = FALSE
  /\ UNCHANGED <<gvars, tvars, ovars, xvars>>

NextShader ==
  \/ render
  \/ ShaderMain
  \/ ShaderBreak
  \/ ShaderStep
  \/ ShaderReturn
  \/ ToComplex
  \/ CallIterations
  \/ IterBreak
  \/ IterStep
  \/ IterReturn

SpecShader == InitShader /\ [][NextShader]_vars

\* the uniforms and the coordinate of a pixel, without the loops
NextRender == render \/ ShaderMain \/ ToComplex

SpecRender == InitRender /\ [][NextRender]_vars

(***************************************************************************)
(* Gesture controller                                                      *)
(***************************************************************************)
\* number of updaters passed to setPosition in one behaviour
MaxEvents == 2

\* canvas.width and canvas.height: a canvas that is not square
Canvases == {[width |-> I(4), height |-> I(3)]}

\* the canvas box does not start at the client origin
Rects == {[left |-> I(1), top |-> I(2)]}

\* events arrive at points of the canvas box; clientX/clientY of a point
\* given in canvas-local coordinates
Client(local, rc) == Pt(Add(local.x, rc.left), Add(local.y, rc.top))

LocalPoints == {Pt(I(0), I(0)), Pt(I(1), I(1)), Pt(I(4), I(3))}

\* the cursor of a wheel event, canvas-local: off the centre on both axes
WheelPoints == {Pt(I(1), I(1))}

\* two-finger placements, canvas-local; the distances are 2 and 4, so that
\* Math.sqrt is exact and the distance ratios are 1/2, 1 and 2
LocalTouchPairs ==
  {<<Pt(I(0), I(0)), Pt(I(0), I(2))>>,
   <<Pt(I(0), I(1)), Pt(I(4), I(1))>>}

\* e.touches of a touch event: one, two or three touch points
TouchLists(rc) ==
  {<<Client(q, rc)>> : q \in LocalPoints}
  \cup {<<Client(pr[1], rc), Client(pr[2], rc)>> : pr \in LocalTouchPairs}
  \cup {<<Client(Pt(I(0), I(0)), rc), Client(Pt(I(1), I(1)), rc),
          Client(Pt(I(4), I(3)), rc)>>}

\* e.deltaY of a wheel event
WheelDeltas == {-120, -3, 3}

\* an updater passed to setPosition: src is the gesture that made it (drag,
\* wheel or pinch), kind the pure function it calls, p and s that function's point and
\* scalar argument; ratio is the distanceRatio of a pinch (0 otherwise)
Updater(src, kind, q, sc, ratio) ==
  [src |-> src, kind |-> kind, p |-> q, s |-> sc, ratio |-> ratio]

\* a viewport passed to setPosition as the new value
ValueUpdate(v) == [src |-> "preset", kind |-> "value", v |-> v]

\* the updater applied to the current viewport
ApplyUpdate(u, currentPosition, cv) ==
  CASE u.kind = "pan" -> calculateNewPosition(currentPosition, u.p, cv)
    [] u.kind = "zoomAt" -> calculateZoomAtPoint(currentPosition, u.p, u.s, cv)
    [] u.kind = "zoom" ->
         [currentPosition EXCEPT !.z = calculateNewZoom(currentPosition.z, u.s)]
    [] u.kind = "value" -> u.v

\* a render computing the state from the queue with every updater given the
\* viewport of the previous render
ProcessQueueStale(q, currentPosition, cv) ==
  IF q = <<>> THEN currentPosition
  ELSE ApplyUpdate(q[Len(q)], currentPosition, cv)

\* a render computes the new state by running the queued updaters in order,
\* each on the result of the one before
RECURSIVE ProcessQueue(_, _, _)
ProcessQueue(q, currentPosition, cv) ==
  IF q = <<>> THEN currentPosition
  ELSE ProcessQueue(Tail(q), ApplyUpdate(Head(q), currentPosition, cv), cv)

\* the state after Canvas has mounted with version h of the hook
InitGesture(h) ==
  /\ hook = h
  /\ canvas \in Canvases
  /\ rect \in Rects
  /\ position = PresetMandelbrot
  /\ updates = <<>>
  /\ isDraggingRef = FALSE
  /\ lastMousePos = Null
  /\ lastTouchDistance = Null
  /\ expected = PresetMandelbrot
  /\ last = [u |-> Null, batch |-> 0, before |-> PresetMandelbrot,
             after |-> PresetMandelbrot]
  /\ run = NoRun
  /\ nEvents = 0
  /\ TransformUnused
  /\ IterUnused
  /\ OverlayUnused
  /\ FurtherUnused

Init == InitGesture("part_000")

Init_useMouseMovement == InitGesture("useMouseMovement")

CanSetPosition == nEvents < MaxEvents

\* setPosition(updater)
setPosition(u) ==
  /\ updates' = Append(updates, u)
  /\ expected' = ApplyUpdate(u, expected, canvas)
  /\ nEvents' = nEvents + 1

NoSetPosition == UNCHANGED <<updates, expected, nEvents>>

Host == <<hook, canvas, rect>>

Dragging == isDraggingRef /\ lastMousePos # Null

Pinching == lastTouchDistance # Null

\* the run of consecutive pointer-moves, continued by a move to q
RunContinued(q) ==
  IF run.n = 0
  THEN [n |-> 1, base |-> expected, from |-> lastMousePos[1], via |-> q]
  ELSE [run EXCEPT !.n = run.n + 1]

\* handleMouseDown passing an updater to setPosition
handleMouseDownSetsPosition(e) ==
  /\ CanSetPosition
  /\ isDraggingRef' = TRUE
  /\ lastMousePos' = Some(e)
  /\ run' = NoRun
  /\ setPosition(Updater("drag", "pan", Origin, I(0), I(0)))
  /\ UNCHANGED <<Host, position, lastTouchDistance, last>>

handleMouseDown(e) ==
  /\ isDraggingRef' = TRUE
  /\ lastMousePos' = Some(e)
  /\ run' = NoRun
  /\ NoSetPosition
  /\ UNCHANGED <<Host, position, lastTouchDistance, last>>

\* handleMouseMove leaving lastMousePos at the position of the press
handleMouseMoveAnchorKept(e) ==
  IF ~isDraggingRef \/ lastMousePos = Null
  THEN UNCHANGED gvars
  ELSE /\ CanSetPosition
       /\ LET mouseDelta == Pt(Sub(e.x, lastMousePos[1].x),
                               Sub(e.y, lastMousePos[1].y))
          IN  setPosition(Updater("drag", "pan", mouseDelta, I(0), I(0)))
       /\ run' = RunContinued(e)
       /\ UNCHANGED <<Host, position, isDraggingRef, lastMousePos,
                      lastTouchDistance, last>>

handleMouseMove(e) ==
  IF ~isDraggingRef \/ lastMousePos = Null
  THEN UNCHANGED gvars
  ELSE /\ CanSetPosition
       /\ LET mouseDelta == Pt(Sub(e.x, lastMousePos[1].x),
                               Sub(e.y, lastMousePos[1].y))
          IN  setPosition(Updater("drag", "pan", mouseDelta, I(0), I(0)))
       /\ lastMousePos' = Some(e)
       /\ run' = RunContinued(e)
       /\ UNCHANGED <<Host, position, isDraggingRef, lastTouchDistance, last>>

\* listener of mouseup and of mouseleave
handleMouseUp ==
  /\ isDraggingRef' = FALSE
  /\ lastMousePos' = Null
  /\ run' = NoRun
  /\ NoSetPosition
  /\ UNCHANGED <<Host, position, lastTouchDistance, last>>

\* handleWheel ending the drag in progress
handleWheelEndsDrag(e, deltaY) ==
  /\ hook = "part_000"
  /\ CanSetPosition
  /\ LET cursorScreen == Pt(Sub(e.x, rect.left), Sub(e.y, rect.top))
         scrollDelta == Mul(MathSign(I(deltaY)), R(1, 2))
     IN  setPosition(Updater("wheel", "zoomAt", cursorScreen, scrollDelta, I(0)))
  /\ run' = NoRun
  /\ isDraggingRef' = FALSE
  /\ lastMousePos' = Null
  /\ UNCHANGED <<Host, position, lastTouchDistance, last>>

\* handleWheel with scrollDelta proportional to e.deltaY
handleWheelMagnitude(e, deltaY) ==
  /\ hook = "part_000"
  /\ CanSetPosition
  /\ LET cursorScreen == Pt(Sub(e.x, rect.left), Sub(e.y, rect.top))
         scrollDelta == Mul(I(deltaY), R(1, 2))
     IN  setPosition(Updater("wheel", "zoomAt", cursorScreen, scrollDelta, I(0)))
  /\ run' = NoRun
  /\ UNCHANGED <<Host, position, isDraggingRef, lastMousePos,
                 lastTouchDistance, last>>

\* handleWheel of part_000: zoom at the cursor
handleWheel(e, deltaY) ==
  /\ hook = "part_000"
  /\ CanSetPosition
  /\ LET cursorScreen == Pt(Sub(e.x, rect.left), Sub(e.y, rect.top))
         scrollDelta == Mul(MathSign(I(deltaY)), R(1, 2))
     IN  setPosition(Updater("wheel", "zoomAt", cursorScreen, scrollDelta, I(0)))
  /\ run' = NoRun
  /\ UNCHANGED <<Host, position, isDraggingRef, lastMousePos,
                 lastTouchDistance, last>>

\* handleWheel of hooks/useMouseMovement.ts: only z changes; the cursor is
\* kept in the updater for the properties, the handler does not read it
handleWheel_useMouseMovement(e, deltaY) ==
  /\ hook = "useMouseMovement"
  /\ CanSetPosition
  /\ LET scrollDelta == Mul(MathSign(I(deltaY)), R(1, 2))
     IN  setPosition(Updater("wheel", "zoom", Pt(Sub(e.x, rect.left), Sub(e.y, rect.top)),
                             scrollDelta, I(0)))
  /\ run' = NoRun
  /\ UNCHANGED <<Host, position, isDraggingRef, lastMousePos,
                 lastTouchDistance, last>>

handleTouchStart(touches) ==
  /\ IF Len(touches) = 2
     THEN /\ lastTouchDistance' = Some(calculateTouchDistance(touches[1], touches[2]))
          /\ UNCHANGED <<isDraggingRef, lastMousePos>>
     ELSE IF Len(touches) = 1
     THEN /\ isDraggingRef' = TRUE
          /\ lastMousePos' = Some(touches[1])
          /\ UNCHANGED lastTouchDistance
     ELSE UNCHANGED <<isDraggingRef, lastMousePos, lastTouchDistance>>
  /\ run' = NoRun
  /\ NoSetPosition
  /\ UNCHANGED <<Host, position, last>>

\* the factor amplifying the zoom of a pinch
PinchAmplification == IF hook = "part_000" THEN I(10) ELSE I(4)

\* the single-touch branch of handleTouchMove, the same in both versions
TouchDrag(touches) ==
  /\ CanSetPosition
  /\ LET mouseDelta == Pt(Sub(touches[1].x, lastMousePos[1].x),
                          Sub(touches[1].y, lastMousePos[1].y))
     IN  setPosition(Updater("drag", "pan", mouseDelta, I(0), I(0)))
  /\ lastMousePos' = Some(touches[1])
  /\ run' = RunContinued(touches[1])
  /\ UNCHANGED <<Host, position, isDraggingRef, lastTouchDistance, last>>

\* handleTouchMove of part_000: a pinch zooms at the centroid
handleTouchMove(touches) ==
  /\ hook = "part_000"
  /\ IF Len(touches) = 2 /\ lastTouchDistance # Null
     THEN /\ CanSetPosition
          /\ LET touch1 == touches[1]
                 touch2 == touches[2]
                 currentDistance == calculateTouchDistance(touch1, touch2)
                 centerScreen ==
                   Pt(Sub(Div(Add(touch1.x, touch2.x), I(2)), rect.left),
                      Sub(Div(Add(touch1.y, touch2.y), I(2)), rect.top))
                 distanceRatio == Div(currentDistance, lastTouchDistance[1])
                 zoomDelta == Mul(Sub(I(1), distanceRatio), PinchAmplification)
             IN  /\ setPosition(Updater("pinch", "zoomAt", centerScreen,
                                        zoomDelta, distanceRatio))
                 /\ lastTouchDistance' = Some(currentDistance)
          /\ run' = NoRun
          /\ UNCHANGED <<Host, position, isDraggingRef, lastMousePos, last>>
     ELSE IF Len(touches) = 1 /\ isDraggingRef /\ lastMousePos # Null
     THEN TouchDrag(touches)
     ELSE UNCHANGED gvars

\* handleTouchMove of hooks/useMouseMovement.ts: a pinch changes only z
handleTouchMove_useMouseMovement(touches) ==
  /\ hook = "useMouseMovement"
  /\ IF Len(touches) = 2 /\ lastTouchDistance # Null
     THEN /\ CanSetPosition
          /\ LET touch1 == touches[1]
                 touch2 == touches[2]
                 currentDistance == calculateTouchDistance(touch1, touch2)
                 centerScreen ==
                   Pt(Sub(Div(Add(touch1.x, touch2.x), I(2)), rect.left),
                      Sub(Div(Add(touch1.y, touch2.y), I(2)), rect.top))
                 distanceRatio == Div(currentDistance, lastTouchDistance[1])
                 zoomDelta == Mul(Sub(I(1), distanceRatio), PinchAmplification)
             IN  /\ setPosition(Updater("pinch", "zoom", centerScreen,
                                        zoomDelta, distanceRatio))
                 /\ lastTouchDistance' = Some(currentDistance)
          /\ run' = NoRun
          /\ UNCHANGED <<Host, position, isDraggingRef, lastMousePos, last>>
     ELSE IF Len(touches) = 1 /\ isDraggingRef /\ lastMousePos # Null
     THEN TouchDrag(touches)
     ELSE UNCHANGED gvars

\* handleTouchEnd clearing the pinch baseline only
handleTouchEndKeepsDrag ==
  /\ lastTouchDistance' = Null
  /\ run' = NoRun
  /\ NoSetPosition
  /\ UNCHANGED <<Host, position, isDraggingRef, lastMousePos, last>>

\* handleTouchEnd leaving lastTouchDistance set
handleTouchEndKeepsPinch ==
  /\ isDraggingRef' = FALSE
  /\ lastMousePos' = Null
  /\ run' = NoRun
  /\ NoSetPosition
  /\ UNCHANGED <<Host, position, lastTouchDistance, last>>

\* listener of touchend and of touchcancel
handleTouchEnd ==
  /\ isDraggingRef' = FALSE
  /\ lastMousePos' = Null
  /\ lastTouchDistance' = Null
  /\ run' = NoRun
  /\ NoSetPosition
  /\ UNCHANGED <<Host, position, last>>

\* React renders Canvas: the queued updaters are processed and position
\* becomes the result
Render ==
  /\ updates # <<>>
  /\ position' = ProcessQueue(updates, position, canvas)
  /\ last' = [u |-> Some(updates[Len(updates)]),
              batch |-> Len(updates),
              before |-> ProcessQueue(SubSeq(updates, 1, Len(updates) - 1),
                                      position, canvas),
              after |-> position']
  /\ updates' = <<>>
  /\ UNCHANGED <<Host, isDraggingRef, lastMousePos, lastTouchDistance,
                 expected, run, nEvents>>
  /\ UNCHANGED Others


MouseDown ==
  /\ \E q \in LocalPoints : handleMouseDown(Client(q, rect))
  /\ UNCHANGED Others

MouseMove ==
  /\ \E q \in LocalPoints : handleMouseMove(Client(q, rect))
  /\ UNCHANGED Others

MouseUp == handleMouseUp /\ UNCHANGED Others

Wheel ==
  /\ \E q \in WheelPoints, deltaY \in WheelDeltas :
       handleWheel(Client(q, rect), deltaY)
  /\ UNCHANGED Others

Wheel_useMouseMovement ==
  /\ \E q \in WheelPoints, deltaY \in WheelDeltas :
       handleWheel_useMouseMovement(Client(q, rect), deltaY)
  /\ UNCHANGED Others

TouchStart ==
  /\ \E touches \in TouchLists(rect) : handleTouchStart(touches)
  /\ UNCHANGED Others

TouchMove ==
  /\ \E touches \in TouchLists(rect) : handleTouchMove(touches)
  /\ UNCHANGED Others

TouchMove_useMouseMovement ==
  /\ \E touches \in TouchLists(rect) : handleTouchMove_useMouseMovement(touches)
  /\ UNCHANGED Others

TouchEnd == handleTouchEnd /\ UNCHANGED Others

\* the listeners of part_000
Next ==
  \/ MouseDown
  \/ MouseMove
  \/ MouseUp
  \/ Wheel
  \/ TouchStart
  \/ TouchMove
  \/ TouchEnd
  \/ Render

Spec == Init /\ [][Next]_vars

\* the listeners of hooks/useMouseMovement.ts
Next_useMouseMovement ==
  \/ MouseDown
  \/ MouseMove
  \/ MouseUp
  \/ Wheel_useMouseMovement
  \/ TouchStart
  \/ TouchMove_useMouseMovement
  \/ TouchEnd
  \/ Render

Spec_useMouseMovement == Init_useMouseMovement /\ [][Next_useMouseMovement]_vars

(***************************************************************************)
(* Gesture controller of part_000 on a canvas of width or height 0         *)
(***************************************************************************)
ZeroCanvases ==
  {[width |-> I(0), height |-> I(3)], [width |-> I(4), height |-> I(0)]}

Init_zeroCanvas ==
  /\ hook = "part_000"
  /\ canvas \in ZeroCanvases
  /\ rect \in Rects
  /\ position = PresetMandelbrot
  /\ updates = <<>>
  /\ isDraggingRef = FALSE
  /\ lastMousePos = Null
  /\ lastTouchDistance = Null
  /\ expected = PresetMandelbrot
  /\ last = [u |-> Null, batch |-> 0, before |-> PresetMandelbrot,
             after |-> PresetMandelbrot]
  /\ run = NoRun
  /\ nEvents = 0
  /\ TransformUnused
  /\ IterUnused
  /\ OverlayUnused
  /\ FurtherUnused

Spec_zeroCanvas == Init_zeroCanvas /\ [][Next]_vars

(***************************************************************************)
(* Gesture controller of part_000 with the last handled event recorded     *)
(***************************************************************************)
\* pointer positions of the recorded events, canvas-local
EventPoints == {Pt(I(1), I(1))}

\* e.touches of the recorded touch events
EventTouchLists(rc) ==
  {<<Client(q, rc)>> : q \in EventPoints}
  \cup {<<Client(pr[1], rc), Client(pr[2], rc)>> : pr \in LocalTouchPairs}
  \cup {<<Client(Pt(I(0), I(0)), rc), Client(Pt(I(1), I(1)), rc),
          Client(Pt(I(4), I(3)), rc)>>}

\* e.deltaY of the recorded wheel events
EventWheelDeltas == {-120}

\* the record of an event of the given type at the given points, written
\* once its handler has run
Handled(type, touches) ==
  handled' = Some([type |-> type, touches |-> touches,
                   dragging |-> Dragging, pinching |-> Pinching,
                   calls |-> nEvents' - nEvents])

NotGesture == <<tvars, ivars, ovars, svars, pvars, cvars>>

InitEvents ==
  /\ hook = "part_000"
  /\ canvas \in Canvases
  /\ rect \in Rects
  /\ position = PresetMandelbrot
  /\ updates = <<>>
  /\ isDraggingRef = FALSE
  /\ lastMousePos = Null
  /\ lastTouchDistance = Null
  /\ expected = PresetMandelbrot
  /\ last = [u |-> Null, batch |-> 0, before |-> PresetMandelbrot,
             after |-> PresetMandelbrot]
  /\ run = NoRun
  /\ nEvents = 0
  /\ handled = Null
  /\ ShaderUnused
  /\ PresetUnused
  /\ ProgramUnused
  /\ TransformUnused
  /\ IterUnused
  /\ OverlayUnused

EventMouseDown ==
  /\ \E q \in EventPoints :
       /\ handleMouseDown(Client(q, rect))
       /\ Handled("mousedown", <<Client(q, rect)>>)
  /\ UNCHANGED NotGesture

EventMouseMove ==
  /\ \E q \in EventPoints :
       /\ handleMouseMove(Client(q, rect))
       /\ Handled("mousemove", <<Client(q, rect)>>)
  /\ UNCHANGED NotGesture

\* mouseup or mouseleave
EventMouseUp ==
  /\ handleMouseUp
  /\ Handled("mouseup", <<>>)
  /\ UNCHANGED NotGesture

EventWheel ==
  /\ \E q \in WheelPoints, deltaY \in EventWheelDeltas :
       /\ handleWheel(Client(q, rect), deltaY)
       /\ Handled("wheel", <<Client(q, rect)>>)
  /\ UNCHANGED NotGesture

EventTouchStart ==
  /\ \E touches \in EventTouchLists(rect) :
       /\ handleTouchStart(touches)
       /\ Handled("touchstart", touches)
  /\ UNCHANGED NotGesture

EventTouchMove ==
  /\ \E touches \in EventTouchLists(rect) :
       /\ handleTouchMove(touches)
       /\ Handled("touchmove", touches)
  /\ UNCHANGED NotGesture

\* touchend or touchcancel
EventTouchEnd ==
  /\ handleTouchEnd
  /\ Handled("touchend", <<>>)
  /\ UNCHANGED NotGesture

NextEvents ==
  \/ EventMouseDown
  \/ EventMouseMove
  \/ EventMouseUp
  \/ EventWheel
  \/ EventTouchStart
  \/ EventTouchMove
  \/ EventTouchEnd
  \/ Render

SpecEvents == InitEvents /\ [][NextEvents]_vars

(***************************************************************************)
(* Canvas: preset selection, with the gesture hook it mounts               *)
(***************************************************************************)
\* largest number of clicks on the selection buttons
MaxSelections == 2

\* a wheel event is handled while the denominator of the radius is at most
\* MaxDenominator, which keeps every number of the model within 32 bits
MaxDenominator == 100000000

\* clientX, clientY of the pointer events, canvas-local
PresetPoints == {Pt(I(0), I(0)), Pt(I(1), I(1))}

\* e.deltaY of the wheel events
PresetWheelDeltas == {-120, 3}

NotCanvas == <<tvars, ivars, ovars, hvars, svars, cvars>>

\* Canvas has mounted useMouseMovement; position is positions[0] of the
\* Mandelbrot set
InitPreset ==
  /\ PresetUnused
  /\ ProgramUnused
  /\ hook = "useMouseMovement"
  /\ canvas \in Canvases
  /\ rect \in Rects
  /\ position = CONFIG[fractal].positions[positionIndex + 1]
  /\ updates = <<>>
  /\ isDraggingRef = FALSE
  /\ lastMousePos = Null
  /\ lastTouchDistance = Null
  /\ expected = position
  /\ last = [u |-> Null, batch |-> 0, before |-> PresetMandelbrot,
             after |-> PresetMandelbrot]
  /\ run = NoRun
  /\ nEvents = 0
  /\ EventsUnused
  /\ ShaderUnused
  /\ TransformUnused
  /\ IterUnused
  /\ OverlayUnused

\* a gesture passing an updater to setPosition makes the viewport differ
\* from the preset
Dirtied == dirty' = (dirty \/ nEvents' > nEvents)

PresetStatic == <<fractal, positionIndex, effectPending, nSelections>>

PresetMouseDown ==
  /\ \E q \in PresetPoints : handleMouseDown(Client(q, rect))
  /\ Dirtied
  /\ UNCHANGED <<PresetStatic, NotCanvas>>

PresetMouseMove ==
  /\ \E q \in PresetPoints : handleMouseMove(Client(q, rect))
  /\ Dirtied
  /\ UNCHANGED <<PresetStatic, NotCanvas>>

PresetMouseUp ==
  /\ handleMouseUp
  /\ Dirtied
  /\ UNCHANGED <<PresetStatic, NotCanvas>>

PresetWheel ==
  /\ expected.z.d <= MaxDenominator
  /\ \E q \in WheelPoints, deltaY \in PresetWheelDeltas :
       handleWheel_useMouseMovement(Client(q, rect), deltaY)
  /\ Dirtied
  /\ UNCHANGED <<PresetStatic, NotCanvas>>

\* a click is rendered before the next event is handled, and an effect
\* that is to run runs before the next render
CanSelect == nSelections < MaxSelections /\ ~effectPending

\* onClick of the position button, shown when the fractal has more than one
\* position: setPositionIndex((positionIndex + 1) % positions.length)
ClickPosition ==
  /\ CanSelect
  /\ Len(CONFIG[fractal].positions) > 1
  /\ positionIndex' = (positionIndex + 1) % Len(CONFIG[fractal].positions)
  /\ effectPending' = (positionIndex' # positionIndex)
  /\ nSelections' = nSelections + 1
  /\ UNCHANGED <<fractal, dirty>>
  /\ UNCHANGED <<gvars, NotCanvas>>

\* handleFractalChange without setPositionIndex(0)
handleFractalChangeKeepsIndex ==
  /\ CanSelect
  /\ LET newFractal == IF fractal = "mandelbrot" THEN "julia" ELSE "mandelbrot"
     IN  fractal' = newFractal
  /\ effectPending' = TRUE
  /\ nSelections' = nSelections + 1
  /\ UNCHANGED <<positionIndex, dirty>>
  /\ UNCHANGED <<gvars, NotCanvas>>

\* handleFractalChange: setFractal(newFractal), setPositionIndex(0)
handleFractalChange ==
  /\ CanSelect
  /\ LET newFractal == IF fractal = "mandelbrot" THEN "julia" ELSE "mandelbrot"
     IN  fractal' = newFractal
  /\ positionIndex' = 0
  /\ effectPending' = (fractal' # fractal \/ positionIndex' # positionIndex)
  /\ nSelections' = nSelections + 1
  /\ UNCHANGED dirty
  /\ UNCHANGED <<gvars, NotCanvas>>

\* the effect passing the preset to setPosition ahead of the updaters that
\* wait for a render
PresetEffectFirst ==
  /\ effectPending
  /\ updates' = <<ValueUpdate(CONFIG[fractal].positions[positionIndex + 1])>>
                  \o updates
  /\ expected' = ProcessQueue(updates', position, canvas)
  /\ effectPending' = FALSE
  /\ dirty' = FALSE
  /\ UNCHANGED <<Host, position, isDraggingRef, lastMousePos,
                 lastTouchDistance, last, run, nEvents>>
  /\ UNCHANGED <<fractal, positionIndex, nSelections>>
  /\ UNCHANGED NotCanvas

\* the effect: setPosition(CONFIG[fractal].positions[positionIndex])
PresetEffect ==
  /\ effectPending
  /\ updates' = Append(updates,
                       ValueUpdate(CONFIG[fractal].positions[positionIndex + 1]))
  /\ expected' = CONFIG[fractal].positions[positionIndex + 1]
  /\ effectPending' = FALSE
  /\ dirty' = FALSE
  /\ UNCHANGED <<Host, position, isDraggingRef, lastMousePos,
                 lastTouchDistance, last, run, nEvents>>
  /\ UNCHANGED <<fractal, positionIndex, nSelections>>
  /\ UNCHANGED NotCanvas

\* React renders Canvas, the effect having run
Render_preset ==
  /\ ~effectPending
  /\ updates # <<>>
  /\ position' = ProcessQueue(updates, position, canvas)
  /\ updates' = <<>>
  /\ UNCHANGED <<Host, isDraggingRef, lastMousePos, lastTouchDistance,
                 expected, last, run, nEvents>>
  /\ UNCHANGED <<pvars, NotCanvas>>

NextPreset ==
  \/ PresetMouseDown
  \/ PresetMouseMove
  \/ PresetMouseUp
  \/ PresetWheel
  \/ ClickPosition
  \/ handleFractalChange
  \/ PresetEffect
  \/ Render_preset

SpecPreset == InitPreset /\ [][NextPreset]_vars

(***************************************************************************)
(* The iteration-path overlay: useIterationPath and IterationPathOverlay   *)
(***************************************************************************)
\* largest number of pointer events and toggleEnabled calls
MaxOverlayEvents == 6

\* an event is handled with fewer than MaxPending state updates waiting for
\* a render
MaxPending == 3

\* largest number of clock ticks, of TickMs milliseconds each
MaxTicks == 2

TickMs == 100

MAX_CLICK_DURATION == 200

MAX_MOVE_DISTANCE == 5

\* the isActive prop is the isEnabled state of useIterationPath
isActive == isEnabled

\* the canvas of targetCanvasRef, the one the gesture hook listens on
OverlayCanvas == [width |-> I(200), height |-> I(150)]

OverlayRect == [left |-> I(10), top |-> I(20)]

\* clientX, clientY of the pointer events: the button is pressed at
\* (100,100), the pointer moves there or 3 px to the right of it, and the
\* button is released at either, or 40 px to the right
PressPoints == {Pt(I(100), I(100))}

MovePoints == PressPoints \cup {Pt(I(103), I(100))}

ReleasePoints == MovePoints \cup {Pt(I(140), I(100))}

\* a call of a state setter of useIterationPath: setIsEnabled(prev => !prev)
\* and setIsFrozen(prev => !prev) have fn = "not", setComplexCoord(v) and
\* setIsFrozen(false) have fn = "value" and v = <<the value>>
SetState(set, fn, v) == [set |-> set, fn |-> fn, v |-> v]

HookState(e, c, f) == [isEnabled |-> e, complexCoord |-> c, isFrozen |-> f]

ApplyStateUpdate(u, st) ==
  CASE u.set = "isEnabled" -> [st EXCEPT !.isEnabled = ~st.isEnabled]
    [] u.set = "complexCoord" -> [st EXCEPT !.complexCoord = u.v[1]]
    [] u.set = "isFrozen" ->
         [st EXCEPT !.isFrozen = IF u.fn = "not" THEN ~st.isFrozen ELSE u.v[1]]

RECURSIVE ProcessStateUpdates(_, _)
ProcessStateUpdates(q, st) ==
  IF q = <<>> THEN st
  ELSE ProcessStateUpdates(Tail(q), ApplyStateUpdate(Head(q), st))

\* toggleFrozen of useIterationPath
toggleFrozen == <<SetState("isFrozen", "not", Null)>>

\* toggleEnabled of useIterationPath, reading the isEnabled of its render
toggleEnabled ==
  <<SetState("isEnabled", "not", Null)>>
  \o (IF isEnabled
      THEN <<SetState("complexCoord", "value", Some(Null)),
             SetState("isFrozen", "value", Some(FALSE))>>
      ELSE <<>>)

\* the coordinate under the canvas-local point q in the rendered viewport
OverlayCoord(q, v) ==
  screenToComplex(q.x, q.y, canvas.width, canvas.height, v)

\* handleMouseMove of the overlay without the test of isFrozen
handleMouseMove_overlayLive(e) ==
  LET screen == Pt(Sub(e.x, rect.left), Sub(e.y, rect.top))
  IN  /\ lastMousePosRef' = Some(screen)
      /\ stateUpdates' =
           Append(stateUpdates,
                  SetState("complexCoord", "value",
                           Some(Some(OverlayCoord(screen, position)))))
      /\ UNCHANGED <<isEnabled, complexCoord, isFrozen, mouseDownTime,
                     mouseDownPos, now>>

\* handleMouseMove of the overlay; isFrozen and position are those of the
\* render that registered it
handleMouseMove_overlay(e) ==
  LET screen == Pt(Sub(e.x, rect.left), Sub(e.y, rect.top))
  IN  /\ lastMousePosRef' = Some(screen)
      /\ stateUpdates' =
           IF ~isFrozen
           THEN Append(stateUpdates,
                       SetState("complexCoord", "value",
                                Some(Some(OverlayCoord(screen, position)))))
           ELSE stateUpdates
      /\ UNCHANGED <<isEnabled, complexCoord, isFrozen, mouseDownTime,
                     mouseDownPos, now>>

\* handleMouseDown of the click effect
handleMouseDown_overlay(e) ==
  /\ mouseDownTime' = now
  /\ mouseDownPos' = e
  /\ UNCHANGED <<isEnabled, complexCoord, isFrozen, stateUpdates,
                 lastMousePosRef, now>>

\* duration < MAX_CLICK_DURATION && distance < MAX_MOVE_DISTANCE, where
\* distance is the square root of dx^2 + dy^2: for integer pixel
\* coordinates Math.sqrt(s) < 5 exactly when s < 25
IsShortClick(duration, e, downPos) ==
  LET dx == Sub(e.x, downPos.x)
      dy == Sub(e.y, downPos.y)
  IN  /\ duration < MAX_CLICK_DURATION
      /\ Lt(Add(Mul(dx, dx), Mul(dy, dy)),
            I(MAX_MOVE_DISTANCE * MAX_MOVE_DISTANCE))

\* handleMouseUp of the click effect
handleMouseUp_overlay(e) ==
  /\ stateUpdates' =
       IF IsShortClick(now - mouseDownTime, e, mouseDownPos)
       THEN stateUpdates \o toggleFrozen
       ELSE stateUpdates
  /\ UNCHANGED <<isEnabled, complexCoord, isFrozen, lastMousePosRef,
                 mouseDownTime, mouseDownPos, now>>

\* the state and locals the handlers of the overlay read and write
ostate == <<isEnabled, complexCoord, isFrozen, stateUpdates, lastMousePosRef,
            mouseDownTime, mouseDownPos, now>>

\* the host has mounted the gesture hook of part_000 and the overlay; the
\* overlay is as mounted, or has been enabled since by toggleEnabled and a
\* render
InitOverlay ==
  /\ hook = "part_000"
  /\ canvas = OverlayCanvas
  /\ rect = OverlayRect
  /\ position = PresetMandelbrot
  /\ updates = <<>>
  /\ isDraggingRef = FALSE
  /\ lastMousePos = Null
  /\ lastTouchDistance = Null
  /\ expected = PresetMandelbrot
  /\ last = [u |-> Null, batch |-> 0, before |-> PresetMandelbrot,
             after |-> PresetMandelbrot]
  /\ run = NoRun
  /\ nEvents = 0
  /\ isEnabled \in BOOLEAN
  /\ complexCoord = Null
  /\ isFrozen = FALSE
  /\ stateUpdates = <<>>
  /\ lastMousePosRef = Null
  /\ mouseDownTime = 0
  /\ mouseDownPos = Origin
  /\ now = StartTime
  /\ press = Null
  /\ lastUp = NoUp
  /\ unfrozen = Null
  /\ nOverlay = 0
  /\ TransformUnused
  /\ IterUnused
  /\ FurtherUnused

CanHandleOverlayEvent ==
  /\ nOverlay < MaxOverlayEvents
  /\ Len(updates) + Len(stateUpdates) < MaxPending

\* mousedown on the canvas: the listener of the gesture hook, then the one
\* of the click effect if the overlay is active
OverlayMouseDown ==
  /\ CanHandleOverlayEvent
  /\ \E e \in PressPoints :
       /\ handleMouseDown(e)
       /\ IF isActive THEN handleMouseDown_overlay(e) ELSE UNCHANGED ostate
       /\ press' = IF isActive
                   THEN Some([time |-> now, pos |-> e, panned |-> FALSE])
                   ELSE Null
  /\ lastUp' = NoUp
  /\ nOverlay' = nOverlay + 1
  /\ UNCHANGED <<unfrozen, tvars, ivars, xvars>>

\* mousemove at e on the canvas: both handleMouseMove listeners
OverlayMouseMoveAt(e) ==
  /\ handleMouseMove(e)
  /\ IF isActive THEN handleMouseMove_overlay(e) ELSE UNCHANGED ostate
  /\ press' = IF press # Null /\ Dragging /\ e # lastMousePos[1]
              THEN Some([press[1] EXCEPT !.panned = TRUE])
              ELSE press
  /\ unfrozen' = IF isActive /\ unfrozen # Null /\ ~unfrozen[1].moved
                 THEN Some([unfrozen[1] EXCEPT
                              !.moved = TRUE,
                              !.shown = (complexCoord = Some(unfrozen[1].coord))])
                 ELSE unfrozen
  /\ nOverlay' = nOverlay + 1
  /\ UNCHANGED <<lastUp, tvars, ivars, xvars>>

OverlayMouseMove ==
  /\ CanHandleOverlayEvent
  /\ \E e \in MovePoints : OverlayMouseMoveAt(e)

\* mouseup on the canvas: both handleMouseUp listeners
OverlayMouseUp ==
  /\ CanHandleOverlayEvent
  /\ \E e \in ReleasePoints :
       /\ handleMouseUp
       /\ IF isActive THEN handleMouseUp_overlay(e) ELSE UNCHANGED ostate
       /\ lastUp' =
            IF isActive /\ press # Null
            THEN [handled |-> TRUE,
                  short |-> IsShortClick(now - press[1].time, e, press[1].pos),
                  toggled |-> IsShortClick(now - mouseDownTime, e, mouseDownPos),
                  panned |-> press[1].panned]
            ELSE NoUp
  /\ press' = Null
  /\ nOverlay' = nOverlay + 1
  /\ UNCHANGED <<unfrozen, tvars, ivars, xvars>>

\* a call of toggleEnabled
OverlayToggleEnabled ==
  /\ CanHandleOverlayEvent
  /\ stateUpdates' = stateUpdates \o toggleEnabled
  /\ nOverlay' = nOverlay + 1
  /\ unfrozen' = Null
  /\ UNCHANGED <<isEnabled, complexCoord, isFrozen, lastMousePosRef,
                 mouseDownTime, mouseDownPos, now, press, lastUp>>
  /\ UNCHANGED <<gvars, tvars, ivars, xvars>>

\* time passes
Tick ==
  /\ now < StartTime + MaxTicks * TickMs
  /\ now' = now + TickMs
  /\ UNCHANGED <<isEnabled, complexCoord, isFrozen, stateUpdates,
                 lastMousePosRef, mouseDownTime, mouseDownPos, press, lastUp,
                 unfrozen, nOverlay>>
  /\ UNCHANGED <<gvars, tvars, ivars, xvars>>

\* the unfreeze effect doing nothing
UnfreezeEffectAbsent(st, pos) == <<>>

\* the unfreeze effect, run after a render with state st and viewport pos:
\* the calls of setComplexCoord it makes
UnfreezeEffect(st, pos) ==
  IF ~st.isEnabled \/ st.isFrozen THEN <<>>
  ELSE IF lastMousePosRef = Null THEN <<>>
  ELSE <<SetState("complexCoord", "value",
                  Some(Some(OverlayCoord(lastMousePosRef[1], pos))))>>

\* A render of the host: the queued updaters of position and of the state
\* of useIterationPath are processed in order, then the effects of the
\* overlay whose dependencies changed are run again.
\*   - React skips the component when no state changed; a position or a
\*     coordinate produced by a handler is a new object and counts as changed
\*   - the move and unfreeze effects depend on isActive, isFrozen, position;
\*     the unfreeze effect calls setComplexCoord if the overlay is active,
\*     not frozen and a pointer position has been tracked
\*   - the click effect depends on toggleFrozen, a new function in every
\*     render of useIterationPath, so it runs again and its locals start
\*     from mouseDownTime = 0, mouseDownPos = (0, 0)
Render_overlay ==
  /\ updates # <<>> \/ stateUpdates # <<>>
  /\ LET st == ProcessStateUpdates(stateUpdates,
                  HookState(isEnabled, complexCoord, isFrozen))
         coordChanged ==
           \/ st.complexCoord # complexCoord
           \/ /\ st.complexCoord # Null
              /\ \E k \in 1..Len(stateUpdates) :
                   stateUpdates[k].set = "complexCoord"
         depsChanged ==
           updates # <<>> \/ st.isFrozen # isFrozen \/ st.isEnabled # isEnabled
         rerendered == depsChanged \/ coordChanged
         unfreezes ==
           /\ isEnabled /\ isFrozen /\ st.isEnabled /\ ~st.isFrozen
           /\ lastMousePosRef # Null
           /\ \A k \in 1..Len(stateUpdates) : stateUpdates[k].set # "isEnabled"
     IN  /\ position' = ProcessQueue(updates, position, canvas)
         /\ updates' = <<>>
         /\ isEnabled' = st.isEnabled
         /\ complexCoord' = st.complexCoord
         /\ isFrozen' = st.isFrozen
         /\ stateUpdates' =
              IF depsChanged THEN UnfreezeEffect(st, position') ELSE <<>>
         /\ mouseDownTime' = IF rerendered THEN 0 ELSE mouseDownTime
         /\ mouseDownPos' = IF rerendered THEN Origin ELSE mouseDownPos
         /\ press' = IF st.isEnabled THEN press ELSE Null
         /\ unfrozen' =
              IF unfreezes
              THEN Some([coord |-> OverlayCoord(lastMousePosRef[1], position'),
                         was |-> st.complexCoord,
                         moved |-> FALSE, shown |-> FALSE])
              ELSE IF st.isFrozen \/ ~st.isEnabled THEN Null ELSE unfrozen
  /\ UNCHANGED <<Host, isDraggingRef, lastMousePos, lastTouchDistance,
                 expected, last, run, nEvents>>
  /\ UNCHANGED <<lastMousePosRef, now, lastUp, nOverlay>>
  /\ UNCHANGED <<tvars, ivars, xvars>>

NextOverlay ==
  \/ OverlayMouseDown
  \/ OverlayMouseMove
  \/ OverlayMouseUp
  \/ OverlayToggleEnabled
  \/ Tick
  \/ Render_overlay

SpecOverlay == InitOverlay /\ [][NextOverlay]_vars

(***************************************************************************)
(* Canvas of Canvas.tsx: the GPU program and the draw calls                *)
(***************************************************************************)
\* largest number of resizes of the canvas
MaxResizes == 2

\* largest number of clicks on the buttons of Canvas
MaxClicks == 3

\* the positions the position button cycles through
POSITIONS == CONFIG.mandelbrot.positions

\* number of entries of FRAGMENT_SHADER_SOURCES
NumFragmentShaders == 4

\* the sources containing {{{calculateColorValue}}}, among those whose text
\* is known: mandelbrot2.frag, entry 1
hasCalculateColorValue == fragmentShaderIndex = 1

\* the program initWebGL builds from a shader source and a color value
Program(index, colorValue) == [shader |-> index, color |-> colorValue]

\* the sizes a resize gives the canvas
ResizeSizes == {[width |-> I(4), height |-> I(3)],
                [width |-> I(3), height |-> I(2)]}

\* render({ context, ... }) called by the named effect: gl.useProgram of the
\* program of that context, then the draw call
Draw(context, selIndex, selColor, by) ==
  lastDraw' = Some([program |-> context,
                    selected |-> Program(selIndex, selColor),
                    by |-> by])

\* the init effect, deps [fragmentShaderIndex, calculateColorValue,
\* positionIndex]: a new program for the selection, and a draw with it
InitEffect(index, colorValue) ==
  /\ contextRef' = Some(Program(index, colorValue))
  /\ Draw(Program(index, colorValue), index, colorValue, "init")

\* the resize effect, deps [position]: a new observer whose callback holds
\* contextRef.current
ResizeEffect ==
  /\ observed' = contextRef
  /\ notify' = TRUE

NotProgram == <<tvars, ivars, ovars, hvars, svars>>

\* the state after mount: the three effects have run in order, the preset
\* passed to setPosition being the position already held, and the observer
\* has delivered its first notification
InitProgram ==
  /\ hook = "useMouseMovement"
  /\ canvas \in Canvases
  /\ rect \in Rects
  /\ position = POSITIONS[1]
  /\ updates = <<>>
  /\ isDraggingRef = FALSE
  /\ lastMousePos = Null
  /\ lastTouchDistance = Null
  /\ expected = position
  /\ last = [u |-> Null, batch |-> 0, before |-> PresetMandelbrot,
             after |-> PresetMandelbrot]
  /\ run = NoRun
  /\ nEvents = 0
  /\ PresetUnused
  /\ fragmentShaderIndex = 3
  /\ calculateColorValue = 0
  /\ contextRef = Some(Program(3, 0))
  /\ observed = contextRef
  /\ notify = FALSE
  /\ lastDraw = Some([program |-> Program(3, 0), selected |-> Program(3, 0),
                      by |-> "resize"])
  /\ nResizes = 0
  /\ EventsUnused
  /\ ShaderUnused
  /\ TransformUnused
  /\ IterUnused
  /\ OverlayUnused

CanClick == nSelections < MaxClicks

GestureStatic == <<Host, position, isDraggingRef, lastMousePos,
                   lastTouchDistance, last, run, nEvents>>

\* onClick of the position button and the render of it: the preset effect
\* passes the preset to setPosition and the init effect builds a program
ProgramClickPosition ==
  /\ CanClick
  /\ positionIndex' = (positionIndex + 1) % Len(POSITIONS)
  /\ updates' = Append(updates, ValueUpdate(POSITIONS[positionIndex' + 1]))
  /\ expected' = POSITIONS[positionIndex' + 1]
  /\ InitEffect(fragmentShaderIndex, calculateColorValue)
  /\ nSelections' = nSelections + 1
  /\ UNCHANGED <<fragmentShaderIndex, calculateColorValue, observed, notify,
                 nResizes>>
  /\ UNCHANGED <<fractal, effectPending, dirty>>
  /\ UNCHANGED <<GestureStatic, NotProgram>>

\* onClick of the fragment shader button and the render of it: the init
\* effect runs, the resize effect does not
ProgramClickShader ==
  /\ CanClick
  /\ fragmentShaderIndex' = (fragmentShaderIndex + 1) % NumFragmentShaders
  /\ InitEffect(fragmentShaderIndex', calculateColorValue)
  /\ nSelections' = nSelections + 1
  /\ UNCHANGED <<calculateColorValue, observed, notify, nResizes>>
  /\ UNCHANGED <<fractal, positionIndex, effectPending, dirty>>
  /\ UNCHANGED <<gvars, NotProgram>>

\* onClick of the color value button and the render of it
ProgramClickColor ==
  /\ CanClick
  /\ hasCalculateColorValue
  /\ calculateColorValue' = (IF calculateColorValue = 0 THEN 1 ELSE 0)
  /\ InitEffect(fragmentShaderIndex, calculateColorValue')
  /\ nSelections' = nSelections + 1
  /\ UNCHANGED <<fragmentShaderIndex, observed, notify, nResizes>>
  /\ UNCHANGED <<fractal, positionIndex, effectPending, dirty>>
  /\ UNCHANGED <<gvars, NotProgram>>

\* a wheel event on the canvas
ProgramWheel ==
  /\ expected.z.d <= MaxDenominator
  /\ \E q \in WheelPoints, deltaY \in PresetWheelDeltas :
       handleWheel_useMouseMovement(Client(q, rect), deltaY)
  /\ UNCHANGED <<pvars, cvars, NotProgram>>

\* React renders Canvas with a new position: the resize effect runs again.
\* A position computed by an updater is a new object; the preset passed by
\* the preset effect is new unless it is the position already held.
Render_program ==
  /\ updates # <<>>
  /\ position' = ProcessQueue(updates, position, canvas)
  /\ updates' = <<>>
  /\ IF position' # position
          \/ updates[Len(updates)].kind # "value"
     THEN ResizeEffect
     ELSE UNCHANGED <<observed, notify>>
  /\ UNCHANGED <<Host, isDraggingRef, lastMousePos, lastTouchDistance,
                 expected, last, run, nEvents>>
  /\ UNCHANGED <<fragmentShaderIndex, calculateColorValue, contextRef,
                 lastDraw, nResizes>>
  /\ UNCHANGED <<pvars, NotProgram>>

\* the callback of the ResizeObserver, for its first notification
ObserverNotify ==
  /\ notify
  /\ observed # Null
  /\ notify' = FALSE
  /\ Draw(observed[1], fragmentShaderIndex, calculateColorValue, "resize")
  /\ UNCHANGED <<fragmentShaderIndex, calculateColorValue, contextRef,
                 observed, nResizes>>
  /\ UNCHANGED <<gvars, pvars, NotProgram>>

\* the callback of the ResizeObserver after the canvas box was resized:
\* canvas.width and canvas.height are set, then render is called with the
\* context the callback holds
ObserverResize ==
  /\ nResizes < MaxResizes
  /\ observed # Null
  /\ \E size \in ResizeSizes : size # canvas /\ canvas' = size
  /\ notify' = FALSE
  /\ Draw(observed[1], fragmentShaderIndex, calculateColorValue, "resize")
  /\ nResizes' = nResizes + 1
  /\ UNCHANGED <<fragmentShaderIndex, calculateColorValue, contextRef,
                 observed>>
  /\ UNCHANGED <<hook, rect, position, updates, isDraggingRef, lastMousePos,
                 lastTouchDistance, expected, last, run, nEvents>>
  /\ UNCHANGED <<pvars, NotProgram>>

NextProgram ==
  \/ ProgramClickPosition
  \/ ProgramClickShader
  \/ ProgramClickColor
  \/ ProgramWheel
  \/ Render_program
  \/ ObserverNotify
  \/ ObserverResize

SpecProgram == InitProgram /\ [][NextProgram]_vars

(***************************************************************************)
(* useIterationPath alone: the functions it returns, called in any order   *)
(***************************************************************************)
\* largest number of calls of the functions the hook returns
MaxHookCalls == 4

\* the coordinates passed to setComplexCoord
HookCoords == {Pt(I(0), I(0)), Pt(R(-1, 2), I(1))}

\* the state of the hook's first render
InitHook ==
  /\ GestureUnused
  /\ TransformUnused
  /\ IterUnused
  /\ OverlayUnused
  /\ FurtherUnused

CanCallHook ==
  /\ nOverlay < MaxHookCalls
  /\ Len(stateUpdates) < MaxPending

HookStatic == <<isEnabled, complexCoord, isFrozen, lastMousePosRef,
                mouseDownTime, mouseDownPos, now, press, lastUp, unfrozen>>

\* a call of toggleEnabled, reading the isEnabled of its render
HookToggleEnabled ==
  /\ CanCallHook
  /\ stateUpdates' = stateUpdates \o toggleEnabled
  /\ nOverlay' = nOverlay + 1
  /\ UNCHANGED HookStatic
  /\ UNCHANGED <<gvars, tvars, ivars, xvars>>

\* a call of toggleFrozen
HookToggleFrozen ==
  /\ CanCallHook
  /\ stateUpdates' = stateUpdates \o toggleFrozen
  /\ nOverlay' = nOverlay + 1
  /\ UNCHANGED HookStatic
  /\ UNCHANGED <<gvars, tvars, ivars, xvars>>

\* a call of setComplexCoord with a coordinate, made for a pointer-move
\* while the rendered isEnabled holds
HookSetComplexCoord ==
  /\ CanCallHook
  /\ isEnabled
  /\ \E c \in HookCoords :
       stateUpdates' =
         Append(stateUpdates, SetState("complexCoord", "value", Some(Some(c))))
  /\ nOverlay' = nOverlay + 1
  /\ UNCHANGED HookStatic
  /\ UNCHANGED <<gvars, tvars, ivars, xvars>>

\* React renders the component using the hook
Render_hook ==
  /\ stateUpdates # <<>>
  /\ LET st == ProcessStateUpdates(stateUpdates,
                  HookState(isEnabled, complexCoord, isFrozen))
     IN  /\ isEnabled' = st.isEnabled
         /\ complexCoord' = st.complexCoord
         /\ isFrozen' = st.isFrozen
  /\ stateUpdates' = <<>>
  /\ UNCHANGED <<lastMousePosRef, mouseDownTime, mouseDownPos, now, press,
                 lastUp, unfrozen, nOverlay>>
  /\ UNCHANGED <<gvars, tvars, ivars, xvars>>

NextHook ==
  \/ HookToggleEnabled
  \/ HookToggleFrozen
  \/ HookSetComplexCoord
  \/ Render_hook

SpecHook == InitHook /\ [][NextHook]_vars

(***************************************************************************)
(* Properties                                                              *)
(***************************************************************************)
\* C1: for a viewport with radius > 0, a canvas with width > 0 and height
\* > 0 and a screen point inside the canvas, complexToScreen of
\* screenToComplex of the point is the point
C1_InverseTransform == tr_pc = "back" => tr_back = tr_in.p

C1_Witness ==
  /\ tr_pc = "back"
  /\ tr_in.canvas.width # tr_in.canvas.height
  /\ tr_in.p.x.n > 0
  /\ tr_in.p.y.n > 0
  /\ tr_in.position = Position(R(-5, 4), R(-3, 8), R(1, 4))

\* the complex point under the canvas-local screen point q in viewport v
Under(q, v) == screenToComplex(q.x, q.y, canvas.width, canvas.height, v)

\* C2: after the zoom of a wheel event is applied, the complex point under
\* the cursor is the same in the new viewport as in the old one
C2_WheelAnchor ==
  (last.u # Null /\ last.u[1].src = "wheel")
    => Under(last.u[1].p, last.after) = Under(last.u[1].p, last.before)

\* C3: two consecutive pointer-moves of a drag, with deltas d1 and d2 from
\* viewport V, give the center of one pointer-move with delta d1 + d2, which
\* is the current pointer position minus the one the first move started from
C3_PanLinearity ==
  (run.n = 2 /\ updates = <<>>)
    => LET single == calculateNewPosition(run.base,
                       Pt(Sub(lastMousePos[1].x, run.from.x),
                          Sub(lastMousePos[1].y, run.from.y)), canvas)
       IN  position.x = single.x /\ position.y = single.y

C3_Witness ==
  /\ run.n = 2
  /\ updates = <<>>
  /\ run.from # run.via
  /\ run.via # lastMousePos[1]
  /\ run.from # lastMousePos[1]

\* C4: the radius of the viewport is > 0 after any sequence of pointer,
\* wheel and touch events
C4_RadiusPositive == Gt(position.z, I(0))

\* C5: a pinch move with distanceRatio < 1 strictly decreases the radius and
\* one with distanceRatio > 1 strictly increases it
C5_PinchDirection ==
  (last.u # Null /\ last.u[1].src = "pinch")
    => /\ Lt(last.u[1].ratio, I(1)) => Lt(last.after.z, last.before.z)
       /\ Gt(last.u[1].ratio, I(1)) => Gt(last.after.z, last.before.z)

\* C6: at most one of Dragging and Pinching is active
C6_OneGesture == ~(Dragging /\ Pinching)

C8_OriginNeverEscapes ==
  (it_pc = "done" /\ it_c = Origin /\ it_max = DefaultMaxIterations)
    => (~it_broke /\ Len(it_path) = DefaultMaxIterations + 1)

C8_Witness ==
  it_pc = "done" /\ it_c = Origin /\ it_max = DefaultMaxIterations

\* C9 as stated: for c = (2,2) the iteration escapes at index 0
C9_EscapesAtIndex0 ==
  (it_pc = "done" /\ it_c = Pt(I(2), I(2)) /\ it_max = DefaultMaxIterations)
    => (it_broke /\ it_i = 0)

\* C9 as amended: for c = (2,2) and maxIterations >= 2 the iteration escapes
\* at index 1, and the returned path is (0,0), (2,2)
C9_EscapesAtIndex1 ==
  (it_pc = "done" /\ it_c = Pt(I(2), I(2)) /\ it_max >= 2)
    => (it_broke /\ it_i = 1 /\ it_path = <<Origin, Pt(I(2), I(2))>>)

C9_Witness ==
  /\ it_pc = "done"
  /\ it_c = Pt(I(2), I(2))
  /\ it_max = DefaultMaxIterations
  /\ it_broke

\* C10: the first element of the returned path is (0,0), for every c and
\* every maxIterations >= 0
C10_PathSeed == it_pc = "done" => (Len(it_path) >= 1 /\ it_path[1] = Origin)

C10_Witness ==
  /\ it_pc = "done"
  /\ it_c # Origin
  /\ Len(it_path) > 1
  /\ it_path[2] # Origin

\* C11: for every c and every maxIterations >= 0 the returned path has at
\* least 1 and at most maxIterations + 1 entries
C11_PathLength ==
  it_pc = "done" => (Len(it_path) >= 1 /\ Len(it_path) <= it_max + 1)

C11_Witness ==
  /\ it_pc = "done"
  /\ it_max >= 2
  /\ it_c # Origin
  /\ Len(it_path) = it_max + 1

\* some z_i with i < maxIterations has |z_i|^2 > 4 (z_i is it_path[i + 1])
EscapedWithin ==
  \E k \in 1..Len(it_path) :
    k - 1 < it_max /\ Escaped(it_path[k].x, it_path[k].y)

\* C12: the returned path has maxIterations + 1 entries if and only if no
\* z_i with i < maxIterations has |z_i|^2 > 4, and when the loop breaks at
\* index i the path has exactly i + 1 entries, the last being the first z
\* with |z|^2 > 4
C12_LengthTellsEscape ==
  it_pc = "done"
    => /\ (Len(it_path) = it_max + 1) <=> ~EscapedWithin
       /\ it_broke <=> EscapedWithin
       /\ it_broke
            => /\ Len(it_path) = it_i + 1
               /\ Escaped(it_path[it_i + 1].x, it_path[it_i + 1].y)
               /\ \A k \in 1..it_i : ~Escaped(it_path[k].x, it_path[k].y)

C12_Witness ==
  /\ it_pc = "done"
  /\ it_broke
  /\ it_i >= 2
  /\ it_max = it_i + 1
  /\ Len(it_path) = it_max

\* C13: while the overlay is active, a mouse-up toggles the frozen flag
\* (calls toggleFrozen, once) if and only if it comes less than 200 ms after
\* the preceding mouse-down and less than 5 px away from it
C13_ShortClickToggles == lastUp.handled => (lastUp.toggled <=> lastUp.short)

\* C14: a mouse-up that ends a press during which a pointer-move panned the
\* viewport does not toggle the frozen flag
C14_DragNeverToggles == (lastUp.handled /\ lastUp.panned) => ~lastUp.toggled

\* no call of toggleEnabled is waiting for a render
NoToggleEnabledPending ==
  \A k \in 1..Len(stateUpdates) : stateUpdates[k].set # "isEnabled"

\* C15: while the overlay is active and frozen, every pointer-move sets the
\* last tracked pointer position to its own (canvas-local) position and
\* asks for no new coordinate, and no step, a pointer-move or a render that
\* changes the viewport included, alters the displayed coordinate
C15_FrozenKeepsCoordinate ==
  [][(isActive /\ isFrozen /\ NoToggleEnabledPending)
       => /\ complexCoord' = complexCoord
          /\ \A e \in MovePoints :
               OverlayMouseMoveAt(e)
                 => /\ lastMousePosRef' =
                         Some(Pt(Sub(e.x, rect.left), Sub(e.y, rect.top)))
                    /\ stateUpdates' = stateUpdates]_vars

C15_Witness ==
  /\ isActive
  /\ isFrozen
  /\ updates = <<>>
  /\ stateUpdates = <<>>
  /\ position # PresetMandelbrot
  /\ complexCoord # Null
  /\ lastMousePosRef # Null
  /\ complexCoord[1] # OverlayCoord(lastMousePosRef[1], position)
  /\ complexCoord[1] # OverlayCoord(lastMousePosRef[1], PresetMandelbrot)

\* C16 as stated: after frozen went from true to false with the overlay
\* active and a pointer position tracked, the displayed coordinate is
\* screenToComplex(last tracked pointer position, current viewport) by the
\* time the next pointer-move is handled
C16_RefreshedBeforeNextMove ==
  (unfrozen # Null /\ unfrozen[1].moved) => unfrozen[1].shown

\* C16 as amended: the render in which frozen goes from true to false asks
\* for the coordinate screenToComplex(last tracked pointer position, current
\* viewport) itself, and with no pointer-move handled since, that coordinate
\* is displayed as soon as the request has been rendered
C16_RefreshedWithoutMove ==
  (unfrozen # Null /\ ~unfrozen[1].moved)
    => /\ unfrozen[1].coord = OverlayCoord(lastMousePosRef[1], position)
       /\ \/ complexCoord = Some(unfrozen[1].coord)
          \/ /\ stateUpdates # <<>>
             /\ stateUpdates[1] = SetState("complexCoord", "value",
                                           Some(Some(unfrozen[1].coord)))

C16_Witness ==
  /\ unfrozen # Null
  /\ ~unfrozen[1].moved
  /\ stateUpdates = <<>>
  /\ complexCoord = Some(unfrozen[1].coord)
  /\ unfrozen[1].was # complexCoord

C18_WheelKeepsGesture ==
  [][\A q \in WheelPoints, deltaY \in WheelDeltas :
       handleWheel(Client(q, rect), deltaY)
         => /\ isDraggingRef' = isDraggingRef
            /\ lastMousePos' = lastMousePos
            /\ lastTouchDistance' = lastTouchDistance
            /\ updates' = Append(updates,
                             Updater("wheel", "zoomAt", q,
                                     Mul(I(Sgn(deltaY)), R(1, 2)), I(0)))]_vars

C18_Witness ==
  /\ Dragging
  /\ Len(updates) = 2
  /\ updates[1].src = "drag"
  /\ updates[2].src = "wheel"

\* neither a drag nor a pinch is in progress
Idle == ~Dragging /\ ~Pinching

\* C19: a pointer-up or pointer-leave handled while Dragging leaves the
\* controller Idle with lastMousePos cleared, and a pointer-move handled in
\* an Idle state passes no updater to setPosition, changes no viewport and
\* leaves the controller Idle
C19_PointerUpToIdle ==
  [][/\ (Dragging /\ handleMouseUp)
          => (Idle' /\ ~isDraggingRef' /\ lastMousePos' = Null)
     /\ (Idle /\ MouseMove)
          => (updates' = updates /\ expected' = expected
              /\ position' = position /\ Idle')]_vars

\* C20: after a touch-end or touch-cancel the controller is Idle:
\* isDraggingRef is false, lastMousePos is null and lastTouchDistance is null
C20_TouchEndClearsAll ==
  [][handleTouchEnd
       => (Idle' /\ ~isDraggingRef' /\ lastMousePos' = Null
           /\ lastTouchDistance' = Null)]_vars

C20_Witness ==
  /\ Idle
  /\ ~isDraggingRef
  /\ lastMousePos = Null
  /\ lastTouchDistance = Null
  /\ updates # <<>>
  /\ updates[Len(updates)].src = "pinch"

\* C27: a 2-point touch-move while Pinching zooms about the midpoint of the
\* two touches: the complex point under the midpoint (canvas-local) is the
\* same in the new viewport as in the old one
C27_PinchAnchor ==
  (last.u # Null /\ last.u[1].src = "pinch")
    => Under(last.u[1].p, last.after) = Under(last.u[1].p, last.before)

\* C28: a pointer-move while Dragging (mouse or single touch) leaves the
\* radius of the viewport as it was
C28_PanKeepsRadius ==
  (last.u # Null /\ last.u[1].src = "drag") => last.after.z = last.before.z

C28_Witness ==
  /\ last.u # Null
  /\ last.u[1].src = "drag"
  /\ last.u[1].p.x # I(0)
  /\ last.u[1].p.y # I(0)
  /\ last.after # last.before
  /\ last.before # PresetMandelbrot

\* canvas-local coordinates of the client point e
Local(e) == Pt(Sub(e.x, rect.left), Sub(e.y, rect.top))

\* C29: after the first pointer-move of a drag, the complex point that was
\* under the previous pointer position in the old viewport is under the
\* current pointer position in the new viewport, on both axes
C29_GrabbedPointFollows ==
  run.n = 1
    => Under(Local(lastMousePos[1]), expected) = Under(Local(run.from), run.base)

\* C30: for c = (-2, 0), whose orbit 0, -2, 2, 2, ... stays at |z|^2 = 4,
\* the loop never breaks and the returned path has maxIterations + 1 entries
C30_StrictEscapeTest ==
  (it_pc = "done" /\ it_c = Pt(I(-2), I(0)))
    => /\ ~it_broke
       /\ Len(it_path) = it_max + 1
       /\ \A k \in 3..Len(it_path) : it_path[k] = Pt(I(2), I(0))

C30_Witness ==
  /\ it_pc = "done"
  /\ it_c = Pt(I(-2), I(0))
  /\ it_max = DefaultMaxIterations
  /\ Len(it_path) = DefaultMaxIterations + 1
  /\ it_path[2] = Pt(I(-2), I(0))
  /\ it_path[Len(it_path)] = Pt(I(2), I(0))

\* the number of calls of setPosition the handler of an event makes: one for
\* a pointer-move while Dragging (mouse or single touch), for a wheel event
\* and for a 2-point touch-move with a baseline recorded, none otherwise
CallsDue(h) ==
  IF \/ h.type = "wheel"
     \/ h.type = "mousemove" /\ h.dragging
     \/ h.type = "touchmove" /\ Len(h.touches) = 1 /\ h.dragging
     \/ h.type = "touchmove" /\ Len(h.touches) = 2 /\ h.pinching
  THEN 1 ELSE 0

\* C21: a touch-move with 2 points handled with no pinch baseline recorded
\* records the distance between the two touches as the baseline
C21_FreshPinchStart ==
  (/\ handled # Null
   /\ handled[1].type = "touchmove"
   /\ Len(handled[1].touches) = 2
   /\ ~handled[1].pinching)
    => lastTouchDistance =
         Some(calculateTouchDistance(handled[1].touches[1],
                                     handled[1].touches[2]))

\* C23: every input event passes at most one updater to setPosition, and
\* the updater yields a complete {x, y, z} viewport: exactly one for a
\* pointer-move while Dragging (mouse or single touch), a wheel event and a
\* 2-point touch-move with a baseline recorded, none for every other event
C23_OneCallPerEvent ==
  /\ handled # Null => handled[1].calls = CallsDue(handled[1])
  /\ Len(updates) <= nEvents
  /\ DOMAIN expected = {"x", "y", "z"}
  /\ DOMAIN position = {"x", "y", "z"}

C23_Witness ==
  /\ handled # Null
  /\ handled[1].type = "touchmove"
  /\ Len(handled[1].touches) = 2
  /\ handled[1].pinching
  /\ handled[1].dragging
  /\ handled[1].calls = 1
  /\ nEvents = 2
  /\ Len(updates) = 2
  /\ updates[1].src = "drag"
  /\ updates[2].src = "pinch"

\* C22: on a canvas of width 0 or height 0 a pan, a wheel event and a pinch
\* leave the viewport as it was
C22_ZeroCanvasNoOp ==
  (canvas.width = I(0) \/ canvas.height = I(0))
    => (expected = PresetMandelbrot /\ position = PresetMandelbrot)

\* the escape index of the CPU walk: path length minus 1 when the path is
\* shorter than maxIterations + 1, none otherwise
CpuEscapeIndex ==
  IF Len(it_path) < it_max + 1 THEN Some(Len(it_path) - 1) ELSE Null

\* C24: for the same c, the escape index of the shader loop (the i passed
\* to calculateColor, or none) equals the escape index of
\* calculateMandelbrotIterations with maxIterations = 1000
C24_ShaderMatchesCpu ==
  (sh_pc = "done" /\ it_pc = "done" /\ it_max = DefaultMaxIterations)
    => /\ sh_coord = it_c
       /\ sh_color = CpuEscapeIndex

C24_Witness ==
  /\ sh_pc = "done"
  /\ it_pc = "done"
  /\ it_max = DefaultMaxIterations
  /\ sh_src = "mandelbrot2"
  /\ sh_coord = it_c
  /\ sh_color = Some(3)
  /\ Len(it_path) = 4

\* the same for a point that does not escape
C24_WitnessNoEscape ==
  /\ sh_pc = "done"
  /\ it_pc = "done"
  /\ sh_src = "fragment3"
  /\ sh_coord = Pt(I(0), I(1))
  /\ sh_color = Null
  /\ sh_i = ShaderMaxIterations
  /\ Len(it_path) = DefaultMaxIterations + 1

\* C25: the coordinate the shader computes from the uniforms for a fragment
\* equals screenToComplex at the screen point (fragCoord.x, height -
\* fragCoord.y), for every viewport, canvas size and pixel
C25_SameRectangle ==
  (sh_pc = "loop" /\ tr_pc = "complex")
    => /\ tr_in.p = Pt(sh_fragCoord.x, Sub(tr_in.canvas.height, sh_fragCoord.y))
       /\ sh_coord = tr_complex

C25_Witness ==
  /\ sh_pc = "loop"
  /\ tr_pc = "complex"
  /\ tr_in.canvas = [width |-> I(3), height |-> I(2)]
  /\ tr_in.position = Position(R(-5, 4), R(-3, 8), R(1, 4))
  /\ tr_in.p = Pt(R(5, 2), R(1, 2))
  /\ sh_fragCoord = Pt(R(5, 2), R(3, 2))
  /\ sh_coord = tr_complex

\* C26: once the effect of a preset selection has run and every update has
\* been rendered, with no gesture handled since the effect ran, the viewport
\* is the selected preset exactly, whatever pans and zooms came before
C26_PresetReplacesViewport ==
  (updates = <<>> /\ ~effectPending /\ ~dirty)
    => position = CONFIG[fractal].positions[positionIndex + 1]

C26_Witness ==
  /\ updates = <<>>
  /\ ~effectPending
  /\ ~dirty
  /\ nEvents >= 2
  /\ nSelections >= 1
  /\ fractal = "julia"
  /\ position = PresetJulia

\* the same after cycling the position
C26_WitnessPosition ==
  /\ updates = <<>>
  /\ ~effectPending
  /\ ~dirty
  /\ nEvents >= 2
  /\ positionIndex = 2
  /\ position = CONFIG.mandelbrot.positions[3]

\* the orbit of c: z_{i+1} = (z_i.x^2 - z_i.y^2 + c.x, 2*z_i.x*z_i.y + c.y)
OrbitNext(z, c) ==
  Pt(Add(Sub(Mul(z.x, z.x), Mul(z.y, z.y)), c.x),
     Add(Mul(I(2), Mul(z.x, z.y)), c.y))

\* C31: the returned path is z_0..z_k of the orbit of c from z_0 = (0,0),
\* k being the first index whose point has squared magnitude > 4, or
\* maxIterations if there is none before it; every point but the last has
\* squared magnitude <= 4, and each imaginary part comes from the previous
\* real part
C31_PathIsOrbitPrefix ==
  it_pc = "done"
    => LET k == Len(it_path) - 1
       IN  /\ it_path[1] = Origin
           /\ \A i \in 1..k : it_path[i + 1] = OrbitNext(it_path[i], it_c)
           /\ \A i \in 1..k : ~Gt(Add(Mul(it_path[i].x, it_path[i].x),
                                      Mul(it_path[i].y, it_path[i].y)), I(4))
           /\ k <= it_max
           /\ k < it_max
                => Gt(Add(Mul(it_path[k + 1].x, it_path[k + 1].x),
                          Mul(it_path[k + 1].y, it_path[k + 1].y)), I(4))

\* c = (-3/2, 1/2), maxIterations = 3: z_2 = (1/2, -1) needs the previous
\* real part, and z_3 = (-9/4, -1/2), the last point, is outside the disc
C31_Witness ==
  /\ it_pc = "done"
  /\ it_c = Pt(R(-3, 2), R(1, 2))
  /\ it_max = 3
  /\ it_path = <<Origin, Pt(R(-3, 2), R(1, 2)), Pt(R(1, 2), I(-1)),
                 Pt(R(-9, 4), R(-1, 2))>>

\* C32: the touch-end of a lifted finger leaves the controller Idle, also
\* after a pinch begun during a drag; an event other than a touch-start or
\* a pointer-down handled in an Idle state leaves it Idle, and a move of the
\* remaining finger handled there passes nothing to setPosition, so no pan
\* is computed from a position recorded before the pinch
C32_LiftedFingerToIdle ==
  handled # Null
    => LET h == handled[1]
       IN  /\ h.type = "touchend" => (Idle /\ ~isDraggingRef /\ lastMousePos = Null)
           /\ (h.type \notin {"touchstart", "mousedown"}
                 /\ ~h.dragging /\ ~h.pinching)
                => /\ Idle
                   /\ h.type \in {"touchmove", "mousemove"} => h.calls = 0

\* a finger has moved alone after a pinch that zoomed and was ended by a
\* touch-end
C32_Witness ==
  /\ handled # Null
  /\ handled[1].type = "touchmove"
  /\ Len(handled[1].touches) = 1
  /\ ~handled[1].dragging
  /\ ~handled[1].pinching
  /\ handled[1].calls = 0
  /\ Idle
  /\ updates # <<>>
  /\ updates[Len(updates)].src = "pinch"
  /\ expected # PresetMandelbrot

\* C33: screenToWorld of the gesture controller returns the complex point
\* screenToComplex returns, for the same screen point, viewport and canvas
C33_SameConversion ==
  (tr_pc # "start" /\ tr_world # Null) => tr_world[1] = tr_complex

\* a point off both centre lines of a non-square canvas, in a viewport that
\* is not a preset
C33_Witness ==
  /\ tr_pc # "start"
  /\ tr_world # Null
  /\ tr_world[1] = tr_complex
  /\ tr_in.canvas = [width |-> I(3), height |-> I(2)]
  /\ tr_in.position = Position(R(-5, 4), R(-3, 8), R(1, 4))
  /\ tr_in.p = Pt(I(1), I(2))

\* C34: a mouse-up less than 200 ms after the mouse-down and less than 5 px
\* away from it toggles the frozen flag also when a pointer-move to another
\* point was handled, and rendered, between the two
C34_ClickSurvivesMoves ==
  (lastUp.handled /\ lastUp.short /\ lastUp.panned) => lastUp.toggled

\* C35: in every rendered state of useIterationPath a disabled overlay has
\* no displayed coordinate and is not frozen
C35_DisabledIsBlank == ~isEnabled => (complexCoord = Null /\ ~isFrozen)

\* C36: every draw call uses the program built for the shader variant and
\* color policy selected when it is made, also a draw made by the resize
\* observer after the selection changed
C36_DrawUsesCurrentProgram ==
  lastDraw # Null => lastDraw[1].program = lastDraw[1].selected

\* C37: after any sequence of fractal-switch and position-cycle clicks,
\* positionIndex is an index of the positions of the selected fractal
C37_PositionIndexValid ==
  /\ positionIndex \in Nat
  /\ positionIndex < Len(CONFIG[fractal].positions)

\* the fractal was switched to Julia, which has one position, after the
\* position had been cycled
C37_Witness ==
  /\ fractal = "julia"
  /\ positionIndex = 0
  /\ nSelections = 2
  /\ ~effectPending

====
